---- MODULE Spec2Model ----
(***************************************************************************)
(* Writify backend (src/backend/server-debug.js): the assignment lifecycle,*)
(* the rating aggregation, the profile routes and the sessions, as the     *)
(* handlers run them against Postgres through the shared connection pool.  *)
(*                                                                         *)
(* Every statement of a handler is a separate pool.query call: the pool    *)
(* hands the statement to any idle client, the statement runs there, and   *)
(* the client goes back to the pool.  BEGIN/COMMIT/ROLLBACK are statements *)
(* like the others, so a transaction is a property of a client, not of a   *)
(* handler.  The database is modelled at READ COMMITTED: the committed     *)
(* tables, and per client the rows its open transaction has written (which *)
(* also are its row locks).                                                *)
(***************************************************************************)
EXTENDS Integers, FiniteSets, Sequences, TLC

\* ---------------------------------------------------------------- bounds
NHandlers == 3      \* HTTP requests handled in one run
NRatings == 2       \* of which rating submissions, in the rating runs
PoolMax == 1        \* clients the pool may open
NUsers == 3         \* rows of users
MaxReq == 2         \* request ids a caller may name (1..MaxReq)
MaxFail == 1        \* pool.query calls that reject in one run
MaxRating == 2      \* rating values a caller may submit (1..MaxRating)
MaxCost == 80       \* estimated_cost values a caller may submit (-MaxCost..MaxCost)
MaxTime == 2        \* days the clock may advance
NListers == 2       \* HTTP requests handled in one run with listings
NCompleters == 2    \* HTTP requests handled in one run with completions
MaxStars == 6       \* the greatest rating a caller may submit in the range runs
NMiners == 2        \* HTTP requests handled in one run with my-assignments listings
NSessions == 2      \* HTTP requests handled in one run with logins
NLogout == 3        \* HTTP requests handled in one run with a logout
NSignOut == 2       \* HTTP requests handled in one run with a sign-out
NLife == 2          \* HTTP requests handled in one run of the whole lifecycle
NProfilers == 2     \* HTTP requests handled in one run with profile updates
NRangers == 2       \* rating submissions in the range runs, one after the other

Handlers == 1..NHandlers
Users == 1..NUsers
ReqIds == 1..MaxReq
Conns == 1..PoolMax

NoRating == -1      \* users.rating IS NULL
Tables == {"req", "asg", "rat", "usr", "port", "ses"}

VARIABLES
    db,         \* committed rows: db[t][id], t \in Tables
    pend,       \* pend[c][t][id]: rows written by the open transaction of client c
    inTx,       \* inTx[c]: client c is inside BEGIN .. COMMIT/ROLLBACK
    nConns,     \* clients the pool has opened so far (1..nConns)
    nextAsg,    \* assignments.id sequence
    nextRat,    \* ratings.id sequence
    hs,         \* hs[h]: the handler of HTTP request h
    fails,      \* rejected pool.query calls so far
    serial,     \* TRUE: the requests arrive one after the other
    nextReq,    \* assignment_requests.id sequence
    clock       \* the current time, in days

vars == <<db, pend, inTx, nConns, nextAsg, nextRat, hs, fails, serial, nextReq, clock>>

\* ------------------------------------------------------------- database
EmptyRows == [t \in Tables |-> << >>]

\* What a statement on client c reads: committed rows, overlaid by the rows
\* c's own open transaction wrote.
View(c) == [t \in Tables |-> pend[c][t] @@ db[t]]

\* Row locks: no transaction of another client has written one of the rows.
Free(c, t, ids) ==
    \A d \in 1..nConns : d # c => DOMAIN pend[d][t] \cap ids = {}

\* A statement on client c writes the rows upd of table t: into the open
\* transaction of c, or straight into the committed table (autocommit).
WriteDb(c, t, upd) ==
    IF inTx[c] THEN db ELSE [db EXCEPT ![t] = upd @@ @]

WritePend(c, t, upd) ==
    IF inTx[c] THEN [pend EXCEPT ![c][t] = upd @@ @] ELSE pend

\* The UNIQUE constraints of the schema on table t, each a set of columns.
\* The schema names them for users.google_id and writer_portfolios.writer_id
\* only.
UniqueKeys(t) ==
    IF t = "usr" THEN {{"google_id"}}
    ELSE IF t = "port" THEN {{"writer_id"}}
    ELSE {}

\* An INSERT of row into table t, reading V, violates a UNIQUE constraint.
Duplicate(V, t, row) ==
    \E k \in UniqueKeys(t) : \E i \in DOMAIN V[t] :
        \A col \in k : V[t][i][col] = row[col]

\* The id the sequence of a table gives its next row.
NextId(rows) ==
    IF DOMAIN rows = {} THEN 1
    ELSE 1 + CHOOSE i \in DOMAIN rows : \A j \in DOMAIN rows : j <= i

\* The CHECK constraints of the schema on a row of table t.  The schema names
\* none: the ranges of ratings.rating and users.writer_status are kept by the
\* handlers alone.
Checks(t, row) == TRUE

\* BEGIN on client c (a warning and no effect inside a transaction).
Begin(c) == [inTx EXCEPT ![c] = TRUE]

\* COMMIT on client c: its pending rows become committed rows.
CommitDb(c) == IF inTx[c] THEN View(c) ELSE db

\* COMMIT and ROLLBACK both leave client c outside a transaction with
\* nothing pending.
EndPend(c) == [pend EXCEPT ![c] = EmptyRows]

EndTx(c) == [inTx EXCEPT ![c] = FALSE]

\* Request r is open neither in the committed table nor in any client's open
\* transaction (history only: recorded in nonOpen when the guarded UPDATE of
\* an accept runs).
NowhereOpen(r) ==
    /\ ~(r \in DOMAIN db.req /\ db.req[r].status = "open")
    /\ \A d \in 1..nConns :
          ~(r \in DOMAIN pend[d].req /\ pend[d].req[r].status = "open")

\* ------------------------------------------------------------- handlers
IdleHandler ==
    [kind |-> "none", pc |-> "idle", conn |-> 0, caller |-> 0, rid |-> 0,
     rated |-> 0, rating |-> 0, cli |-> 0, found |-> 0, resp |-> 0,
     threw |-> FALSE, wrote |-> FALSE, nonOpen |-> FALSE, ws0 |-> "null",
     overlaps |-> FALSE, body |-> << >>, t0 |-> 0, rows |-> << >>,
     aid |-> 0, after |-> {}]

\* The id of the session that the request of handler h starts when it
\* carries none: ids are unique, the first NUsers are taken at the start.
FreshSid(h) == NUsers + h

Active(h) == hs[h].pc \notin {"idle", "done", "hung"}

\* pool.query: the statements of the handlers, by position.
AcceptStmts == {"a_begin", "a_update", "a_rollback404", "a_insert", "a_busy",
                "a_commit", "a_lookup", "a_rollback500"}
RatingStmts == {"r_begin", "r_select", "r_update", "r_insert", "r_recompute",
                "r_complete", "r_find", "r_commit", "r_rollback"}
\* pool.query calls of the handlers that open no transaction: create,
\* listing, complete, profile, portfolio, my-assignments, and the loading of
\* the session and of its user before a handler runs.
PlainStmts == {"c_insert", "l_select", "p_check", "p_update", "w_update",
               "f_upsert", "m_client", "m_writer", "m_ratings",
               "o_load", "s_load", "s_user", "x_load", "x_user"}
\* pool.query calls of the OAuth callback, and those the session store makes
\* for a logout.
LoginStmts == {"g_select", "g_insert", "g_session"}
LogoutStmts == {"o_save", "o_regen", "o_destroy"}

Stmts == AcceptStmts \cup RatingStmts \cup PlainStmts \cup LoginStmts
            \cup LogoutStmts

\* The catch block of the handler that owns statement pc; a statement of
\* the catch block itself rejects outside any try.
CatchOf(pc) ==
    IF pc \in {"a_rollback500", "r_rollback"} THEN "hung"
    ELSE IF pc \in AcceptStmts THEN "a_rollback500"
    ELSE "r_rollback"

InFlight(c) == \E h \in Handlers : hs[h].conn = c

IdleClients == {c \in 1..nConns : ~InFlight(c)}

\* pool.query of handler h gets a client: an idle one, or a new one when none
\* is idle and the pool is not full; otherwise the call waits for a release.
Acquire(h) ==
    /\ hs[h].pc \in Stmts
    /\ hs[h].conn = 0
    /\ \/ /\ \E c \in IdleClients : hs' = [hs EXCEPT ![h].conn = c]
          /\ UNCHANGED nConns
       \/ /\ IdleClients = {}
          /\ nConns < PoolMax
          /\ nConns' = nConns + 1
          /\ hs' = [hs EXCEPT ![h].conn = nConns + 1]
    /\ UNCHANGED <<db, pend, inTx, nextAsg, nextRat, fails, serial, nextReq, clock>>

\* The statement of handler h has run on its client: the client is released
\* and the handler runs on to its next pool.query, statement pc.
Resume(h, pc, cli, found) ==
    [hs EXCEPT ![h].pc = pc, ![h].conn = 0, ![h].cli = cli, ![h].found = found]

Respond(h, code) ==
    [hs EXCEPT ![h].pc = "done", ![h].conn = 0, ![h].resp = code]

Running(h, pc) == hs[h].pc = pc /\ hs[h].conn # 0

\* A request arrives and its handler runs up to its first pool.query.
\* Handlers are numbered in the order the requests arrive; overlaps records
\* that every earlier request was still unanswered on arrival, after the
\* requests that had been answered.
Arrive(h, rec) ==
    /\ hs[h].pc = "idle"
    /\ \A g \in Handlers : g < h => hs[g].pc # "idle"
    /\ serial => \A g \in Handlers : ~Active(g)
    /\ hs' = [hs EXCEPT ![h] =
                [rec EXCEPT !.overlaps = \A g \in Handlers : g < h => Active(g),
                            !.after = {g \in Handlers : hs[g].pc = "done"}]]

\* The pool.query in flight for handler h rejects: its client is released
\* and control goes to the catch block.
Thrown(h) ==
    IF hs[h].pc \in PlainStmts
    THEN [hs EXCEPT ![h].pc = "done", ![h].conn = 0, ![h].threw = TRUE,
                    ![h].resp = 500]
    ELSE IF hs[h].pc \in LoginStmts
    THEN \* done(error) or the error of req.login: redirect, error=server
         [hs EXCEPT ![h].pc = "done", ![h].conn = 0, ![h].threw = TRUE,
                    ![h].resp = 302, ![h].ws0 = "server"]
    ELSE IF hs[h].pc = "o_save"
    THEN \* the error is logged; req.session is still the session loaded
         [hs EXCEPT ![h].pc = "o_destroy", ![h].conn = 0, ![h].threw = TRUE]
    ELSE IF hs[h].pc = "o_regen"
    THEN \* the error is logged; req.session is a new session all the same
         [hs EXCEPT ![h].pc = "o_destroy", ![h].conn = 0, ![h].threw = TRUE,
                    ![h].cli = FreshSid(h)]
    ELSE IF hs[h].pc = "o_destroy"
    THEN \* the error is logged; the cookie is cleared and the redirect sent
         [hs EXCEPT ![h].pc = "done", ![h].conn = 0, ![h].threw = TRUE,
                    ![h].resp = 302, ![h].ws0 = "login"]
    ELSE [hs EXCEPT ![h].pc = CatchOf(hs[h].pc), ![h].conn = 0,
                    ![h].threw = TRUE]

\* The statement in flight for handler h fails (statement timeout, server
\* error): it has no effect, its client is released and control goes to the
\* handler's catch block, whose ROLLBACK is the next pool.query; a rejection
\* inside the catch block is not handled and the request is never answered.
Reject(h) ==
    /\ hs[h].pc \in Stmts
    /\ hs[h].conn # 0
    /\ fails < MaxFail
    /\ fails' = fails + 1
    /\ hs' = Thrown(h)
    /\ UNCHANGED <<db, pend, inTx, nConns, nextAsg, nextRat, serial, nextReq, clock>>

\* ---------------------------------- POST /api/assignment-requests/:id/accept
StartAccept(h) ==
    /\ \E u \in Users, r \in ReqIds :
         Arrive(h, [IdleHandler EXCEPT
                    !.kind = "accept", !.pc = "a_begin", !.caller = u, !.rid = r,
                    !.ws0 = db.usr[u].writer_status, !.t0 = clock])
    /\ UNCHANGED <<db, pend, inTx, nConns, nextAsg, nextRat, fails, serial, nextReq, clock>>

AcceptBegin(h) ==
    /\ Running(h, "a_begin")
    /\ inTx' = Begin(hs[h].conn)
    /\ hs' = Resume(h, "a_update", 0, 0)
    /\ UNCHANGED <<db, pend, nConns, nextAsg, nextRat, fails, serial, nextReq, clock>>

\* UPDATE assignment_requests SET status = 'assigned'
\* WHERE id = $1 AND status = 'open' RETURNING *
AcceptMatchesAnyStatus(V, r) == r \in DOMAIN V.req

AcceptMatches(V, r) == r \in DOMAIN V.req /\ V.req[r].status = "open"

AcceptUpdate(h) ==
    /\ Running(h, "a_update")
    /\ LET c == hs[h].conn
           r == hs[h].rid
           V == View(c)
           no == NowhereOpen(r)
       IN IF AcceptMatches(V, r)
          THEN /\ Free(c, "req", {r})
               /\ db' = WriteDb(c, "req", r :> [V.req[r] EXCEPT !.status = "assigned"])
               /\ pend' = WritePend(c, "req", r :> [V.req[r] EXCEPT !.status = "assigned"])
               /\ hs' = [Resume(h, "a_insert", V.req[r].client, 1)
                             EXCEPT ![h].nonOpen = no]
          ELSE /\ UNCHANGED <<db, pend>>
               /\ hs' = [Resume(h, "a_rollback404", 0, 0)
                             EXCEPT ![h].nonOpen = no]
    /\ UNCHANGED <<inTx, nConns, nextAsg, nextRat, fails, serial, nextReq, clock>>

AcceptRollback404(h) ==
    /\ Running(h, "a_rollback404")
    /\ pend' = EndPend(hs[h].conn)
    /\ inTx' = EndTx(hs[h].conn)
    /\ hs' = Respond(h, 404)
    /\ UNCHANGED <<db, nConns, nextAsg, nextRat, fails, serial, nextReq, clock>>

\* INSERT INTO assignments (request_id, writer_id, client_id, status)
AcceptInsert(h) ==
    /\ Running(h, "a_insert")
    /\ LET c == hs[h].conn
           row == [request_id |-> hs[h].rid, writer_id |-> hs[h].caller,
                   client_id |-> hs[h].cli, status |-> "in_progress",
                   completed_at |-> FALSE]
       IN IF Duplicate(View(c), "asg", row)
          THEN /\ hs' = Thrown(h)
               /\ UNCHANGED <<db, pend, nextAsg>>
          ELSE /\ db' = WriteDb(c, "asg", nextAsg :> row)
               /\ pend' = WritePend(c, "asg", nextAsg :> row)
               /\ nextAsg' = nextAsg + 1
               /\ hs' = Resume(h, "a_busy", hs[h].cli, hs[h].found)
    /\ UNCHANGED <<inTx, nConns, nextRat, fails, serial, nextReq, clock>>

\* UPDATE users SET writer_status = 'busy' WHERE id = $1
AcceptBusy(h) ==
    /\ Running(h, "a_busy")
    /\ LET c == hs[h].conn
           u == hs[h].caller
           row == [View(c).usr[u] EXCEPT !.writer_status = "busy"]
       IN /\ Free(c, "usr", {u})
          /\ db' = WriteDb(c, "usr", u :> row)
          /\ pend' = WritePend(c, "usr", u :> row)
    /\ hs' = Resume(h, "a_commit", hs[h].cli, hs[h].found)
    /\ UNCHANGED <<inTx, nConns, nextAsg, nextRat, fails, serial, nextReq, clock>>

AcceptCommit(h) ==
    /\ Running(h, "a_commit")
    /\ db' = CommitDb(hs[h].conn)
    /\ pend' = EndPend(hs[h].conn)
    /\ inTx' = EndTx(hs[h].conn)
    /\ hs' = Resume(h, "a_lookup", hs[h].cli, hs[h].found)
    /\ UNCHANGED <<nConns, nextAsg, nextRat, fails, serial, nextReq, clock>>

\* SELECT whatsapp_number FROM users WHERE id = client_id; then res.json
AcceptLookup(h) ==
    /\ Running(h, "a_lookup")
    /\ hs' = Respond(h, 200)
    /\ UNCHANGED <<db, pend, inTx, nConns, nextAsg, nextRat, fails, serial, nextReq, clock>>

\* catch: ROLLBACK, then 500
AcceptRollback500(h) ==
    /\ Running(h, "a_rollback500")
    /\ pend' = EndPend(hs[h].conn)
    /\ inTx' = EndTx(hs[h].conn)
    /\ hs' = Respond(h, 500)
    /\ UNCHANGED <<db, nConns, nextAsg, nextRat, fails, serial, nextReq, clock>>

Accept(h) ==
    \/ StartAccept(h)
    \/ AcceptBegin(h)
    \/ AcceptUpdate(h)
    \/ AcceptRollback404(h)
    \/ AcceptInsert(h)
    \/ AcceptBusy(h)
    \/ AcceptCommit(h)
    \/ AcceptLookup(h)
    \/ AcceptRollback500(h)

\* ------------------------------------------------------- POST /api/ratings
RECURSIVE SumRatings(_, _)
SumRatings(rat, ids) ==
    IF ids = {} THEN 0
    ELSE LET i == CHOOSE x \in ids : TRUE
         IN rat[i].rating + SumRatings(rat, ids \ {i})

\* AVG(rating)::numeric(3,2), as hundredths: the cast rounds to two decimals,
\* half away from zero.
RoundAvg(sum, n) == (200 * sum + n) \div (2 * n)

RatedRows(rat, u) == {i \in DOMAIN rat : rat[i].rated_id = u}

OwnRows(rat, rater, r) ==
    {i \in DOMAIN rat : rat[i].rater_id = rater /\ rat[i].rid = r}

\* if (!rated_id || !rating || !assignment_request_id) return 400
RatingInvalid(rated, rating, r) == rated = 0 \/ rating = 0 \/ r = 0

StartRating(h) ==
    /\ \E u \in Users, t \in 0..NUsers, v \in 0..MaxRating, r \in 0..MaxReq :
         IF RatingInvalid(t, v, r)
         THEN Arrive(h, [IdleHandler EXCEPT
                    !.kind = "rating", !.pc = "done", !.caller = u, !.resp = 400])
         ELSE Arrive(h, [IdleHandler EXCEPT
                    !.kind = "rating", !.pc = "r_begin", !.caller = u,
                    !.rated = t, !.rating = v, !.rid = r])
    /\ UNCHANGED <<db, pend, inTx, nConns, nextAsg, nextRat, fails, serial, nextReq, clock>>

RatingBegin(h) ==
    /\ Running(h, "r_begin")
    /\ inTx' = Begin(hs[h].conn)
    /\ hs' = Resume(h, "r_select", 0, 0)
    /\ UNCHANGED <<db, pend, nConns, nextAsg, nextRat, fails, serial, nextReq, clock>>

\* SELECT id FROM ratings WHERE rater_id = $1 AND assignment_request_id = $2
RatingSelect(h) ==
    /\ Running(h, "r_select")
    /\ LET n == Cardinality(OwnRows(View(hs[h].conn).rat, hs[h].caller, hs[h].rid))
       IN hs' = Resume(h, IF n > 0 THEN "r_update" ELSE "r_insert", 0, n)
    /\ UNCHANGED <<db, pend, inTx, nConns, nextAsg, nextRat, fails, serial, nextReq, clock>>

\* UPDATE ratings SET rating = $1, comment = $2, created_at = CURRENT_TIMESTAMP
\* WHERE rater_id = $3 AND assignment_request_id = $4
RatingUpdate(h) ==
    /\ Running(h, "r_update")
    /\ LET c == hs[h].conn
           V == View(c)
           ids == OwnRows(V.rat, hs[h].caller, hs[h].rid)
           upd == [i \in ids |-> [V.rat[i] EXCEPT !.rating = hs[h].rating]]
       IN IF \E i \in ids : ~Checks("rat", upd[i])
          THEN /\ hs' = Thrown(h)
               /\ UNCHANGED <<db, pend>>
          ELSE /\ Free(c, "rat", ids)
               /\ db' = WriteDb(c, "rat", upd)
               /\ pend' = WritePend(c, "rat", upd)
               /\ hs' = [Resume(h, "r_recompute", 0, hs[h].found)
                            EXCEPT ![h].wrote = TRUE]
    /\ UNCHANGED <<inTx, nConns, nextAsg, nextRat, fails, serial, nextReq, clock>>

\* INSERT INTO ratings (rater_id, rated_id, rating, comment, assignment_request_id)
RatingInsert(h) ==
    /\ Running(h, "r_insert")
    /\ LET c == hs[h].conn
           row == [rater_id |-> hs[h].caller, rated_id |-> hs[h].rated,
                   rating |-> hs[h].rating, rid |-> hs[h].rid]
       IN IF Duplicate(View(c), "rat", row) \/ ~Checks("rat", row)
          THEN /\ hs' = Thrown(h)
               /\ UNCHANGED <<db, pend, nextRat>>
          ELSE /\ db' = WriteDb(c, "rat", nextRat :> row)
               /\ pend' = WritePend(c, "rat", nextRat :> row)
               /\ nextRat' = nextRat + 1
               /\ hs' = [Resume(h, "r_recompute", 0, hs[h].found)
                            EXCEPT ![h].wrote = TRUE]
    /\ UNCHANGED <<inTx, nConns, nextAsg, fails, serial, nextReq, clock>>

\* WITH rating_stats AS (SELECT rated_id, AVG(rating)::numeric(3,2), COUNT(*)
\*   FROM ratings WHERE rated_id = $1 GROUP BY rated_id)
\* UPDATE users SET rating = rs.avg_rating, total_ratings = rs.total_ratings
\* FROM rating_stats rs WHERE users.id = rs.rated_id
RatingStats(V, u) ==
    LET ids == RatedRows(V.rat, u)
    IN [V.usr[u] EXCEPT
          !.rating = RoundAvg(SumRatings(V.rat, ids), Cardinality(ids)),
          !.total_ratings = Cardinality(ids)]

RatingRecompute(h) ==
    /\ Running(h, "r_recompute")
    /\ LET c == hs[h].conn
           V == View(c)
           u == hs[h].rated
       IN IF RatedRows(V.rat, u) = {}
          THEN UNCHANGED <<db, pend>>
          ELSE /\ Free(c, "usr", {u})
               /\ db' = WriteDb(c, "usr", u :> RatingStats(V, u))
               /\ pend' = WritePend(c, "usr", u :> RatingStats(V, u))
    /\ hs' = Resume(h, "r_complete", 0, hs[h].found)
    /\ UNCHANGED <<inTx, nConns, nextAsg, nextRat, fails, serial, nextReq, clock>>

\* UPDATE assignments SET status = 'completed', completed_at = CURRENT_TIMESTAMP
\* FROM assignment_requests ar WHERE ar.id = $1 AND assignments.request_id = ar.id
CompletedRows(V, r) ==
    IF r \in DOMAIN V.req
    THEN {a \in DOMAIN V.asg : V.asg[a].request_id = r}
    ELSE {}

RatingComplete(h) ==
    /\ Running(h, "r_complete")
    /\ LET c == hs[h].conn
           V == View(c)
           ids == CompletedRows(V, hs[h].rid)
           upd == [a \in ids |-> [V.asg[a] EXCEPT !.status = "completed",
                                                  !.completed_at = TRUE]]
       IN /\ Free(c, "asg", ids)
          /\ db' = WriteDb(c, "asg", upd)
          /\ pend' = WritePend(c, "asg", upd)
          /\ hs' = Resume(h, IF ids # {} THEN "r_commit" ELSE "r_find", 0, hs[h].found)
    /\ UNCHANGED <<inTx, nConns, nextAsg, nextRat, fails, serial, nextReq, clock>>

\* no row updated: SELECT a.id, a.status, a.request_id ... (logged only)
RatingFind(h) ==
    /\ Running(h, "r_find")
    /\ hs' = Resume(h, "r_commit", 0, hs[h].found)
    /\ UNCHANGED <<db, pend, inTx, nConns, nextAsg, nextRat, fails, serial, nextReq, clock>>

RatingCommit(h) ==
    /\ Running(h, "r_commit")
    /\ db' = CommitDb(hs[h].conn)
    /\ pend' = EndPend(hs[h].conn)
    /\ inTx' = EndTx(hs[h].conn)
    /\ hs' = Respond(h, 201)
    /\ UNCHANGED <<nConns, nextAsg, nextRat, fails, serial, nextReq, clock>>

\* catch: ROLLBACK, then 500
RatingRollback(h) ==
    /\ Running(h, "r_rollback")
    /\ pend' = EndPend(hs[h].conn)
    /\ inTx' = EndTx(hs[h].conn)
    /\ hs' = Respond(h, 500)
    /\ UNCHANGED <<db, nConns, nextAsg, nextRat, fails, serial, nextReq, clock>>

Rating(h) ==
    \/ StartRating(h)
    \/ RatingBegin(h)
    \/ RatingSelect(h)
    \/ RatingUpdate(h)
    \/ RatingInsert(h)
    \/ RatingRecompute(h)
    \/ RatingComplete(h)
    \/ RatingFind(h)
    \/ RatingCommit(h)
    \/ RatingRollback(h)

\* The rating of the body: absent or 0, the least, and the two greatest
\* numbers a caller may submit.
RatingInputs == {0, 1, MaxStars - 1, MaxStars}

\* A rating submission whose rating is any of these, the other fields as in
\* StartRating.
StartRatingAny(h) ==
    /\ \E u \in Users, t \in 0..NUsers, v \in RatingInputs, r \in 0..MaxReq :
         IF RatingInvalid(t, v, r)
         THEN Arrive(h, [IdleHandler EXCEPT
                    !.kind = "rating", !.pc = "done", !.caller = u,
                    !.rating = v, !.resp = 400])
         ELSE Arrive(h, [IdleHandler EXCEPT
                    !.kind = "rating", !.pc = "r_begin", !.caller = u,
                    !.rated = t, !.rating = v, !.rid = r])
    /\ UNCHANGED <<db, pend, inTx, nConns, nextAsg, nextRat, fails, serial, nextReq, clock>>

\* ------------------------------------------- POST /api/assignment-requests
MaxCourseName == 255
MaxCourseCode == 50
MaxAssignmentType == 100
ExpirationDays == 7
CostStep == 50

\* A text field of the body, by its length: absent or empty, at the ceiling,
\* one past it.
Lengths(max) == {0, max, max + 1}

\* estimated_cost of the body: absent, text that parseFloat cannot read, or
\* a number.
CostInputs ==
    {[kind |-> "missing", val |-> 0], [kind |-> "nan", val |-> 0]}
    \cup {[kind |-> "num", val |-> v] : v \in -MaxCost..MaxCost}

Bodies ==
    [course_name : Lengths(MaxCourseName), course_code : Lengths(MaxCourseCode),
     assignment_type : Lengths(MaxAssignmentType),
     num_pages : {"missing", "nan", "num"}, deadline : {"missing", "set"},
     estimated_cost : CostInputs]

\* if (!course_name || !course_code || !assignment_type || !num_pages ||
\*     !deadline || !estimated_cost)
MissingField(b) ==
    \/ b.course_name = 0 \/ b.course_code = 0 \/ b.assignment_type = 0
    \/ b.num_pages = "missing" \/ b.deadline = "missing"
    \/ b.estimated_cost.kind = "missing"

\* if (isNaN(parseInt(num_pages)) || isNaN(parseFloat(estimated_cost)))
NotNumeric(b) == b.num_pages = "nan" \/ b.estimated_cost.kind = "nan"

TooLongAtCeiling(b) ==
    \/ b.course_name >= MaxCourseName
    \/ b.course_code >= MaxCourseCode
    \/ b.assignment_type >= MaxAssignmentType

TooLong(b) ==
    \/ b.course_name > MaxCourseName
    \/ b.course_code > MaxCourseCode
    \/ b.assignment_type > MaxAssignmentType

CreateInvalid(b) == MissingField(b) \/ NotNumeric(b) \/ TooLong(b)

RoundCostDown(x) == (x \div CostStep) * CostStep

\* Math.round(parseFloat(estimated_cost) / 50) * 50; Math.round rounds a
\* half towards +Infinity.
RoundCost(x) == ((2 * x + CostStep) \div (2 * CostStep)) * CostStep

\* s.substring(0, max), by length.
Substring(len, max) == IF len < max THEN len ELSE max

\* sanitizedData, built before the INSERT is sent; t is new Date().
SanitizedData(u, b, t) ==
    [client |-> u,
     course_name |-> Substring(b.course_name, MaxCourseName),
     course_code |-> Substring(b.course_code, MaxCourseCode),
     assignment_type |-> Substring(b.assignment_type, MaxAssignmentType),
     estimated_cost |-> RoundCost(b.estimated_cost.val),
     expiration_deadline |-> t + ExpirationDays]

\* The request arrives: validation, answered 400 at once when it fails.
StartCreate(h) ==
    /\ hs[h].pc = "idle"
    /\ \E u \in Users, b \in Bodies :
          Arrive(h, IF CreateInvalid(b)
                    THEN [IdleHandler EXCEPT !.kind = "create", !.pc = "done",
                            !.caller = u, !.body = b, !.resp = 400]
                    ELSE [IdleHandler EXCEPT !.kind = "create",
                            !.pc = "c_insert", !.caller = u, !.body = b,
                            !.t0 = clock])
    /\ UNCHANGED <<db, pend, inTx, nConns, nextAsg, nextRat, fails, serial,
                   nextReq, clock>>

\* The created_at column is not in the INSERT: the database sets it to the
\* time the statement runs.
CreatedAt == clock

\* INSERT INTO assignment_requests (...) VALUES (..., 'open', $8) RETURNING *
CreateInsert(h) ==
    /\ Running(h, "c_insert")
    /\ LET c == hs[h].conn
           row == [status |-> "open", created_at |-> CreatedAt]
                    @@ SanitizedData(hs[h].caller, hs[h].body, hs[h].t0)
       IN /\ db' = WriteDb(c, "req", nextReq :> row)
          /\ pend' = WritePend(c, "req", nextReq :> row)
    /\ nextReq' = nextReq + 1
    /\ hs' = [Respond(h, 201) EXCEPT ![h].rows = <<nextReq>>]
    /\ UNCHANGED <<inTx, nConns, nextAsg, nextRat, fails, serial, clock>>

Create(h) == StartCreate(h) \/ CreateInsert(h)

\* A day passes.
Tick ==
    /\ clock < MaxTime
    /\ clock' = clock + 1
    /\ UNCHANGED <<db, pend, inTx, nConns, nextAsg, nextRat, hs, fails, serial,
                   nextReq>>

\* -------------------------------------------- GET /api/assignment-requests
NoDeadline == -1    \* expiration_deadline IS NULL

\* ar.expiration_deadline IS NULL OR ar.expiration_deadline > NOW()
NotExpired(row, t) ==
    row.expiration_deadline = NoDeadline \/ row.expiration_deadline > t

\* WHERE ar.status = 'open' AND (... IS NULL OR ... > NOW()); every request
\* has its client's users row to join.
Listed(V, t) ==
    {r \in DOMAIN V.req : V.req[r].status = "open" /\ NotExpired(V.req[r], t)}

\* ORDER BY ar.created_at DESC: the orders the sort may produce, rows of
\* equal created_at in either order.
OrderedDesc(V, ids) ==
    {s \in [1..Cardinality(ids) -> ids] :
        /\ \A i, j \in DOMAIN s : i < j =>
              /\ s[i] # s[j]
              /\ V.req[s[i]].created_at >= V.req[s[j]].created_at}

StartList(h) ==
    /\ Arrive(h, [IdleHandler EXCEPT !.kind = "list", !.pc = "l_select"])
    /\ UNCHANGED <<db, pend, inTx, nConns, nextAsg, nextRat, fails, serial,
                   nextReq, clock>>

\* The SELECT runs and the rows are sent: res.json(transformedRequests).
ListSelect(h) ==
    /\ Running(h, "l_select")
    /\ LET V == View(hs[h].conn)
       IN \E s \in OrderedDesc(V, Listed(V, clock)) :
            hs' = [Respond(h, 200) EXCEPT ![h].rows = s, ![h].t0 = clock]
    /\ UNCHANGED <<db, pend, inTx, nConns, nextAsg, nextRat, fails, serial,
                   nextReq, clock>>

List(h) == StartList(h) \/ ListSelect(h)

\* ------------------------------------------ PUT /api/assignments/:id/complete
\* The request arrives: :id names an assignment or the next, unused, id.
StartComplete(h) ==
    /\ hs[h].pc = "idle"
    /\ \E u \in Users, a \in 1..nextAsg :
          Arrive(h, [IdleHandler EXCEPT !.kind = "complete", !.pc = "p_check",
                        !.caller = u, !.aid = a])
    /\ UNCHANGED <<db, pend, inTx, nConns, nextAsg, nextRat, fails, serial,
                   nextReq, clock>>

\* SELECT * FROM assignments WHERE id = $1 AND writer_id = $2
IsWriterOf(V, a, u) == a \in DOMAIN V.asg /\ V.asg[a].writer_id = u

\* No row: 403.
CompleteCheck(h) ==
    /\ Running(h, "p_check")
    /\ hs' = IF IsWriterOf(View(hs[h].conn), hs[h].aid, hs[h].caller)
             THEN Resume(h, "p_update", hs[h].cli, 1)
             ELSE Respond(h, 403)
    /\ UNCHANGED <<db, pend, inTx, nConns, nextAsg, nextRat, fails, serial,
                   nextReq, clock>>

CompleteToggle(h) ==
    /\ Running(h, "p_update")
    /\ LET c == hs[h].conn
           V == View(c)
           ids == {hs[h].aid} \cap DOMAIN V.asg
           upd == [a \in ids |->
                     [V.asg[a] EXCEPT
                        !.status = IF @ = "completed" THEN "in_progress"
                                   ELSE "completed",
                        !.completed_at = ~@]]
       IN /\ Free(c, "asg", ids)
          /\ db' = WriteDb(c, "asg", upd)
          /\ pend' = WritePend(c, "asg", upd)
    /\ hs' = Respond(h, 200)
    /\ UNCHANGED <<inTx, nConns, nextAsg, nextRat, fails, serial, nextReq, clock>>

CompleteStatusOnly(h) ==
    /\ Running(h, "p_update")
    /\ LET c == hs[h].conn
           V == View(c)
           ids == {hs[h].aid} \cap DOMAIN V.asg
           upd == [a \in ids |-> [V.asg[a] EXCEPT !.status = "completed"]]
       IN /\ Free(c, "asg", ids)
          /\ db' = WriteDb(c, "asg", upd)
          /\ pend' = WritePend(c, "asg", upd)
    /\ hs' = Respond(h, 200)
    /\ UNCHANGED <<inTx, nConns, nextAsg, nextRat, fails, serial, nextReq, clock>>

CompleteAndFree(h) ==
    /\ Running(h, "p_update")
    /\ LET c == hs[h].conn
           V == View(c)
           u == hs[h].caller
       IN /\ Free(c, "usr", {u})
          /\ db' = WriteDb(c, "usr", u :> [V.usr[u] EXCEPT !.writer_status = "active"])
          /\ pend' = WritePend(c, "usr", u :> [V.usr[u] EXCEPT !.writer_status = "active"])
    /\ hs' = Respond(h, 200)
    /\ UNCHANGED <<inTx, nConns, nextAsg, nextRat, fails, serial, nextReq, clock>>

\* UPDATE assignments SET status = 'completed', completed_at = NOW()
\* WHERE id = $2 RETURNING *; res.json(result.rows[0])
CompleteUpdate(h) ==
    /\ Running(h, "p_update")
    /\ LET c == hs[h].conn
           V == View(c)
           ids == {hs[h].aid} \cap DOMAIN V.asg
           upd == [a \in ids |-> [V.asg[a] EXCEPT !.status = "completed",
                                                  !.completed_at = TRUE]]
       IN /\ Free(c, "asg", ids)
          /\ db' = WriteDb(c, "asg", upd)
          /\ pend' = WritePend(c, "asg", upd)
    /\ hs' = Respond(h, 200)
    /\ UNCHANGED <<inTx, nConns, nextAsg, nextRat, fails, serial, nextReq, clock>>

Complete(h) == StartComplete(h) \/ CompleteCheck(h) \/ CompleteUpdate(h)

\* ------------------------------------------------------------- sessions
\* The session store keeps its rows in table session through the same pool
\* (store: new pgSession({pool, ...})): a row per session id, with the id of
\* the user logged in (0: none); a deleted row is kept as a row that is not
\* live.  The expire column is not modelled.
UniversityDomain == "@student.iul.ac.in"

\* An e-mail address, as the sequence of its parts.
Emails ==
    {<<"ann", UniversityDomain>>, <<"ann", "@gmail.com">>,
     <<"ann", UniversityDomain, ".example.com">>,
     <<"ann", "@gmail.com", UniversityDomain>>}

\* s.endsWith(suffix)
EndsWith(s, suffix) ==
    /\ Len(s) >= Len(suffix)
    /\ SubSeq(s, Len(s) - Len(suffix) + 1, Len(s)) = suffix

IsValidIfIncluded(email) ==
    \E i \in 1..Len(email) : email[i] = UniversityDomain

\* const isValidUniversityEmail = (email) => email.endsWith('@student.iul.ac.in')
IsValidUniversityEmail(email) == EndsWith(email, <<UniversityDomain>>)

\* The session with id sid, as a statement reading V finds it: its user, or
\* 0 when there is no such session or nobody is logged in.
SessionUser(V, sid) ==
    IF sid \in DOMAIN V.ses /\ V.ses[sid].live THEN V.ses[sid].user ELSE 0

\* The columns that INSERT INTO users does not name take their defaults.
UserDefaults ==
    [role |-> "student", writer_status |-> "null", rating |-> NoRating,
     total_ratings |-> 0, university_stream |-> "null",
     whatsapp_number |-> "null"]

\* ------------------------------------------------ GET /auth/google/callback
\* The verify callback gets the profile: an invalid e-mail is answered at
\* once, done(null, false), the redirect with error=unauthorized.
StartLogin(h) ==
    /\ hs[h].pc = "idle"
    /\ \E g \in 1..(NUsers + 1), e \in Emails :
          Arrive(h, IF ~IsValidUniversityEmail(e)
                    THEN [IdleHandler EXCEPT !.kind = "login", !.pc = "done",
                            !.caller = g, !.body = e, !.resp = 302,
                            !.ws0 = "unauthorized"]
                    ELSE [IdleHandler EXCEPT !.kind = "login",
                            !.pc = "g_select", !.caller = g, !.body = e])
    /\ UNCHANGED <<db, pend, inTx, nConns, nextAsg, nextRat, fails, serial,
                   nextReq, clock>>

\* SELECT * FROM users WHERE google_id = $1
LoginSelect(h) ==
    /\ Running(h, "g_select")
    /\ LET V == View(hs[h].conn)
           ids == {u \in DOMAIN V.usr : V.usr[u].google_id = hs[h].caller}
       IN IF ids = {}
          THEN hs' = Resume(h, "g_insert", 0, 0)
          ELSE \E u \in ids : hs' = Resume(h, "g_session", u, 1)
    /\ UNCHANGED <<db, pend, inTx, nConns, nextAsg, nextRat, fails, serial,
                   nextReq, clock>>

\* INSERT INTO users (google_id, email, name, profile_picture) ... RETURNING *
LoginInsert(h) ==
    /\ Running(h, "g_insert")
    /\ LET c == hs[h].conn
           V == View(c)
           u == NextId(V.usr)
           row == [google_id |-> hs[h].caller, email |-> hs[h].body]
                    @@ UserDefaults
       IN IF Duplicate(V, "usr", row) \/ ~Checks("usr", row)
          THEN /\ hs' = Thrown(h)
               /\ UNCHANGED <<db, pend>>
          ELSE /\ db' = WriteDb(c, "usr", u :> row)
               /\ pend' = WritePend(c, "usr", u :> row)
               /\ hs' = Resume(h, "g_session", u, 0)
    /\ UNCHANGED <<inTx, nConns, nextAsg, nextRat, fails, serial, nextReq, clock>>

\* req.login(user): the new session, with the user's id, is stored; then
\* the redirect to the dashboard.
LoginSession(h) ==
    /\ Running(h, "g_session")
    /\ LET c == hs[h].conn
           row == [user |-> hs[h].cli, live |-> TRUE]
       IN /\ Free(c, "ses", {FreshSid(h)})
          /\ db' = WriteDb(c, "ses", FreshSid(h) :> row)
          /\ pend' = WritePend(c, "ses", FreshSid(h) :> row)
    /\ hs' = [Respond(h, 302) EXCEPT ![h].ws0 = "dashboard",
                                     ![h].rid = FreshSid(h)]
    /\ UNCHANGED <<inTx, nConns, nextAsg, nextRat, fails, serial, nextReq, clock>>

Login(h) == StartLogin(h) \/ LoginSelect(h) \/ LoginInsert(h) \/ LoginSession(h)

\* -------------------------------------------------------- GET /auth/logout
\* The request carries the cookie of a session.
StartLogout(h) ==
    /\ hs[h].pc = "idle"
    /\ \E sid \in 1..NUsers :
          Arrive(h, [IdleHandler EXCEPT !.kind = "logout", !.pc = "o_load",
                        !.rid = sid])
    /\ UNCHANGED <<db, pend, inTx, nConns, nextAsg, nextRat, fails, serial,
                   nextReq, clock>>

\* The session middleware loads the session of the cookie; when the store
\* has none, req.session is a new session.
LogoutLoad(h) ==
    /\ Running(h, "o_load")
    /\ LET V == View(hs[h].conn)
           sid == hs[h].rid
       IN hs' = IF sid \in DOMAIN V.ses /\ V.ses[sid].live
                THEN Resume(h, "o_save", sid, 1)
                ELSE Resume(h, "o_save", FreshSid(h), 0)
    /\ UNCHANGED <<db, pend, inTx, nConns, nextAsg, nextRat, fails, serial,
                   nextReq, clock>>

\* A statement on client c writes row for session sid.
PutSession(c, sid, row) ==
    /\ Free(c, "ses", {sid})
    /\ db' = WriteDb(c, "ses", sid :> row)
    /\ pend' = WritePend(c, "ses", sid :> row)

\* req.logout(cb): the user is taken out of the session and the session
\* is saved ...
LogoutSave(h) ==
    /\ Running(h, "o_save")
    /\ PutSession(hs[h].conn, hs[h].cli, [user |-> 0, live |-> TRUE])
    /\ hs' = Resume(h, "o_regen", hs[h].cli, hs[h].found)
    /\ UNCHANGED <<inTx, nConns, nextAsg, nextRat, fails, serial, nextReq, clock>>

\* ... and regenerated: its row is deleted and req.session is a new session.
LogoutRegenerate(h) ==
    /\ Running(h, "o_regen")
    /\ PutSession(hs[h].conn, hs[h].cli, [user |-> 0, live |-> FALSE])
    /\ hs' = Resume(h, "o_destroy", FreshSid(h), hs[h].found)
    /\ UNCHANGED <<inTx, nConns, nextAsg, nextRat, fails, serial, nextReq, clock>>

\* req.session.destroy(cb): the row of req.session is deleted; then
\* res.clearCookie and the redirect to the login page.
LogoutDestroy(h) ==
    /\ Running(h, "o_destroy")
    /\ LET c == hs[h].conn
           sid == hs[h].cli
       IN IF sid \in DOMAIN View(c).ses
          THEN PutSession(c, sid, [user |-> 0, live |-> FALSE])
          ELSE UNCHANGED <<db, pend>>
    /\ hs' = [Respond(h, 302) EXCEPT ![h].ws0 = "login"]
    /\ UNCHANGED <<inTx, nConns, nextAsg, nextRat, fails, serial, nextReq, clock>>

Logout(h) ==
    \/ StartLogout(h) \/ LogoutLoad(h) \/ LogoutSave(h)
    \/ LogoutRegenerate(h) \/ LogoutDestroy(h)

\* ------------------------------------- isAuthenticated, /api/auth/status
\* The routes registered with the isAuthenticated middleware, and the others.
ProtectedRoutes ==
    {"writers", "writers/:id", "assignment-requests:post",
     "assignment-requests:get", "accept", "my-assignments", "my-ratings",
     "profile", "profile/writer", "profile/portfolio", "update-whatsapp",
     "ratings", "complete"}

OpenRoutes == {"auth/status", "my-assignments-test", "test"}

GuardedButOne(route) == route \in ProtectedRoutes \ {"my-ratings"}

Guarded(route) == route \in ProtectedRoutes

\* The answer of a route to a request whose session holds no user:
\* isAuthenticated answers 401; /api/auth/status answers isAuthenticated:
\* false and the test routes their fixed data; a handler that runs without
\* the middleware throws on req.user.id.
Unauthenticated(route) ==
    IF Guarded(route) THEN 401
    ELSE IF route \in ProtectedRoutes THEN 500
    ELSE 200

\* A request arrives for some route, with the cookie of a session or none.
\* Without a cookie there is nothing to load: req.isAuthenticated() is false.
StartProbe(h) ==
    /\ hs[h].pc = "idle"
    /\ \E route \in ProtectedRoutes \cup OpenRoutes, sid \in 0..(NUsers + 1) :
          Arrive(h, IF sid # 0
                    THEN [IdleHandler EXCEPT !.kind = "probe", !.pc = "s_load",
                            !.rid = sid, !.ws0 = route]
                    ELSE [IdleHandler EXCEPT !.kind = "probe", !.pc = "done",
                            !.ws0 = route, !.resp = Unauthenticated(route)])
    /\ UNCHANGED <<db, pend, inTx, nConns, nextAsg, nextRat, fails, serial,
                   nextReq, clock>>

\* The session middleware loads the session of the cookie.
ProbeLoad(h) ==
    /\ Running(h, "s_load")
    /\ LET u == SessionUser(View(hs[h].conn), hs[h].rid)
       IN hs' = IF u = 0
                THEN Respond(h, Unauthenticated(hs[h].ws0))
                ELSE Resume(h, "s_user", u, 0)
    /\ UNCHANGED <<db, pend, inTx, nConns, nextAsg, nextRat, fails, serial,
                   nextReq, clock>>

\* deserializeUser: SELECT * FROM users WHERE id = $1; no row is an error
\* (500); with a row req.isAuthenticated() is true and the route's handler
\* runs (its statements are not part of this handler).
ProbeUser(h) ==
    /\ Running(h, "s_user")
    /\ hs' = IF hs[h].cli \in DOMAIN View(hs[h].conn).usr
             THEN [Respond(h, 200) EXCEPT ![h].found = 1,
                                          ![h].caller = hs[h].cli]
             ELSE Respond(h, 500)
    /\ UNCHANGED <<db, pend, inTx, nConns, nextAsg, nextRat, fails, serial,
                   nextReq, clock>>

Probe(h) == StartProbe(h) \/ ProbeLoad(h) \/ ProbeUser(h)

\* ------------------------------------------- Header: Sign Out (frontend)
\* handleLogout: fetch(`${config.apiUrl}/api/auth/logout`, {method: 'POST',
\* credentials: 'include', ...})
LogoutFetch == [method |-> "POST", path |-> "/api/auth/logout"]

\* app.get('/auth/logout', ...)
LogoutRoute == [method |-> "GET", path |-> "/auth/logout"]

\* The routes the server registers.
Registered ==
    {[method |-> "GET", path |-> "/auth/google"],
     [method |-> "GET", path |-> "/auth/google/callback"],
     LogoutRoute,
     [method |-> "GET", path |-> "/api/auth/status"],
     [method |-> "GET", path |-> "/api/writers"],
     [method |-> "GET", path |-> "/api/writers/:id"],
     [method |-> "POST", path |-> "/api/assignment-requests"],
     [method |-> "GET", path |-> "/api/assignment-requests"],
     [method |-> "POST", path |-> "/api/assignment-requests/:id/accept"],
     [method |-> "GET", path |-> "/api/my-assignments"],
     [method |-> "GET", path |-> "/api/my-ratings"],
     [method |-> "GET", path |-> "/api/profile"],
     [method |-> "PUT", path |-> "/api/profile/writer"],
     [method |-> "POST", path |-> "/api/profile/portfolio"],
     [method |-> "POST", path |-> "/api/update-whatsapp"],
     [method |-> "POST", path |-> "/api/ratings"],
     [method |-> "GET", path |-> "/api/my-assignments-test"],
     [method |-> "PUT", path |-> "/api/assignments/:id/complete"],
     [method |-> "GET", path |-> "/api/test"]}

\* response.ok
Ok(status) == status \in 200..299

\* The fetch of handler h is answered with status: if (response.ok)
\* navigate('/login'), else the failure is logged and the page stays.
Fetched(h, status) ==
    [Respond(h, status) EXCEPT ![h].ws0 = IF Ok(status) THEN "login" ELSE @]

\* The request of handler h, its session loaded, goes to the route
\* registered for its method and path: the logout handler, whose redirect to
\* the login page the fetch follows; without a route, to the 404 handler
\* (app.use at the end).
Dispatch(h) ==
    IF hs[h].body = LogoutRoute
    THEN Resume(h, "o_save", hs[h].rid, 1)
    ELSE Fetched(h, IF hs[h].body \in Registered THEN 200 ELSE 404)

\* Sign Out is pressed on a page of a user whose browser holds the cookie
\* of a session.
StartSignOut(h) ==
    /\ hs[h].pc = "idle"
    /\ \E sid \in 1..NUsers :
          Arrive(h, [IdleHandler EXCEPT !.kind = "signout", !.pc = "x_load",
                        !.rid = sid, !.body = LogoutFetch,
                        !.ws0 = "dashboard"])
    /\ UNCHANGED <<db, pend, inTx, nConns, nextAsg, nextRat, fails, serial,
                   nextReq, clock>>

\* The session middleware loads the session of the cookie.
SignOutLoad(h) ==
    /\ Running(h, "x_load")
    /\ LET u == SessionUser(View(hs[h].conn), hs[h].rid)
       IN hs' = IF u = 0
                THEN [hs EXCEPT ![h] = Dispatch(h)[h], ![h].conn = 0]
                ELSE Resume(h, "x_user", u, 0)
    /\ UNCHANGED <<db, pend, inTx, nConns, nextAsg, nextRat, fails, serial,
                   nextReq, clock>>

\* deserializeUser, then the route.
SignOutUser(h) ==
    /\ Running(h, "x_user")
    /\ hs' = IF hs[h].cli \in DOMAIN View(hs[h].conn).usr
             THEN [hs EXCEPT ![h] = Dispatch(h)[h], ![h].conn = 0]
             ELSE Respond(h, 500)
    /\ UNCHANGED <<db, pend, inTx, nConns, nextAsg, nextRat, fails, serial,
                   nextReq, clock>>

SignOut(h) == StartSignOut(h) \/ SignOutLoad(h) \/ SignOutUser(h)

\* --------------------------------------------------- GET /api/my-assignments
\* const effectiveRole = userRole === 'student' ? 'client' : userRole
EffectiveRole(role) == IF role = "student" THEN "client" ELSE role

\* The request arrives; req.user is the caller's users row.  A role that is
\* neither 'client' nor 'writer': 403.
StartMine(h) ==
    /\ hs[h].pc = "idle"
    /\ \E u \in Users :
          LET role == EffectiveRole(db.usr[u].role)
          IN Arrive(h, IF role = "client"
                       THEN [IdleHandler EXCEPT !.kind = "mine",
                               !.pc = "m_client", !.caller = u]
                       ELSE IF role = "writer"
                       THEN [IdleHandler EXCEPT !.kind = "mine",
                               !.pc = "m_writer", !.caller = u]
                       ELSE [IdleHandler EXCEPT !.kind = "mine", !.pc = "done",
                               !.caller = u, !.resp = 403])
    /\ UNCHANGED <<db, pend, inTx, nConns, nextAsg, nextRat, fails, serial,
                   nextReq, clock>>

\* The rows of a join, in every order.
Orders(S) ==
    {s \in [1..Cardinality(S) -> S] : \A i, j \in DOMAIN s : i < j => s[i] # s[j]}

\* FROM assignment_requests ar LEFT JOIN assignments a ON ar.id = a.request_id
\* LEFT JOIN users writer ... WHERE ar.client_id = $1: a row for every
\* Assignment of a request of the caller, and one without writer for a
\* request that has none.
ClientJoin(V, u) ==
    LET mine == {r \in DOMAIN V.req : V.req[r].client = u}
        of(r) == {a \in DOMAIN V.asg : V.asg[a].request_id = r}
    IN {[request_id |-> V.asg[a].request_id, asg |-> a,
         writer_id |-> V.asg[a].writer_id, client_id |-> u,
         status |-> V.asg[a].status] :
            a \in {x \in DOMAIN V.asg : V.asg[x].request_id \in mine}}
       \cup {[request_id |-> r, asg |-> 0, writer_id |-> 0, client_id |-> u,
               status |-> "pending"] : r \in {x \in mine : of(x) = {}}}

\* FROM assignments a JOIN assignment_requests ar ON a.request_id = ar.id
\* ... WHERE a.writer_id = $1
WriterJoin(V, u) ==
    {[request_id |-> V.asg[a].request_id, asg |-> a, writer_id |-> u,
      client_id |-> V.req[V.asg[a].request_id].client,
      status |-> V.asg[a].status] :
        a \in {x \in DOMAIN V.asg :
                  V.asg[x].writer_id = u /\ V.asg[x].request_id \in DOMAIN V.req}}

\* The first SELECT of either branch; ORDER BY created_at DESC is not
\* modelled, the rows come in any order.
MineSelect(h) ==
    /\ hs[h].conn # 0
    /\ hs[h].pc \in {"m_client", "m_writer"}
    /\ LET V == View(hs[h].conn)
           J == IF hs[h].pc = "m_client" THEN ClientJoin(V, hs[h].caller)
                ELSE WriterJoin(V, hs[h].caller)
       IN \E s \in Orders(J) :
            hs' = [Resume(h, "m_ratings", 0, 0) EXCEPT
                     ![h].rows = s,
                     ![h].ws0 = IF hs[h].pc = "m_client" THEN "client"
                                ELSE "writer"]
    /\ UNCHANGED <<db, pend, inTx, nConns, nextAsg, nextRat, fails, serial,
                   nextReq, clock>>

\* SELECT assignment_request_id, rated_id FROM ratings WHERE rater_id = $1,
\* put into a Map by assignment_request_id row after row: the maps that the
\* orders of the rows can leave, the last row of a request winning.
RatedMaps(V, u) ==
    LET own == {i \in DOMAIN V.rat : V.rat[i].rater_id = u}
        rids == {V.rat[i].rid : i \in own}
    IN {m \in [rids -> 0..NUsers] :
          \A r \in rids : \E i \in own : V.rat[i].rid = r /\ V.rat[i].rated_id = m[r]}

\* has_rated_writer and has_rated_client of a row, for branch role.
Flagged(a, m, role) ==
    [request_id |-> a.request_id, asg |-> a.asg, writer_id |-> a.writer_id,
     client_id |-> a.client_id, status |-> a.status,
     has_rated_writer |->
        IF role = "client"
        THEN a.writer_id # 0 /\ a.request_id \in DOMAIN m
                             /\ m[a.request_id] = a.writer_id
        ELSE FALSE,
     has_rated_client |->
        IF role = "client" THEN FALSE
        ELSE a.request_id \in DOMAIN m /\ m[a.request_id] = a.client_id]

\* The second SELECT; res.json({role, assignments}).
MineRatings(h) ==
    /\ Running(h, "m_ratings")
    /\ \E m \in RatedMaps(View(hs[h].conn), hs[h].caller) :
          hs' = [Respond(h, 200) EXCEPT
                   ![h].rows = [i \in DOMAIN hs[h].rows |->
                                  Flagged(hs[h].rows[i], m, hs[h].ws0)]]
    /\ UNCHANGED <<db, pend, inTx, nConns, nextAsg, nextRat, fails, serial,
                   nextReq, clock>>

Mine(h) == StartMine(h) \/ MineSelect(h) \/ MineRatings(h)

\* ------------------------------------------------- PUT /api/profile/writer
\* writer_status of the body: absent, the empty string, a status, another
\* word; the two other fields: absent or a text.
StatusInputs == {"null", "", "active", "busy", "inactive", "retired"}

ProfileBodies ==
    [university_stream : {"null", "arts"}, whatsapp_number : {"null", "555"},
     writer_status : StatusInputs]

\* if (writer_status && ...): absent and the empty string are falsy.
Truthy(x) == x \notin {"null", ""}

\* if (writer_status && !['active', 'busy', 'inactive'].includes(writer_status))
InvalidStatus(ws) == Truthy(ws) /\ ws \notin {"active", "busy", "inactive"}

StartProfile(h) ==
    /\ hs[h].pc = "idle"
    /\ \E u \in Users, b \in ProfileBodies :
          Arrive(h, IF InvalidStatus(b.writer_status)
                    THEN [IdleHandler EXCEPT !.kind = "profile", !.pc = "done",
                            !.caller = u, !.body = b, !.resp = 400]
                    ELSE [IdleHandler EXCEPT !.kind = "profile",
                            !.pc = "w_update", !.caller = u, !.body = b])
    /\ UNCHANGED <<db, pend, inTx, nConns, nextAsg, nextRat, fails, serial,
                   nextReq, clock>>

\* UPDATE users SET university_stream = $1, whatsapp_number = $2,
\* writer_status = $3 WHERE id = $4 RETURNING *; no row: 404
ProfileUpdate(h) ==
    /\ Running(h, "w_update")
    /\ LET c == hs[h].conn
           V == View(c)
           u == hs[h].caller
           b == hs[h].body
           ids == {u} \cap DOMAIN V.usr
           upd == [i \in ids |->
                     [V.usr[i] EXCEPT
                        !.university_stream = b.university_stream,
                        !.whatsapp_number = b.whatsapp_number,
                        !.writer_status = b.writer_status]]
       IN IF \E i \in ids : ~Checks("usr", upd[i])
          THEN /\ hs' = Thrown(h)
               /\ UNCHANGED <<db, pend>>
          ELSE /\ Free(c, "usr", ids)
               /\ db' = WriteDb(c, "usr", upd)
               /\ pend' = WritePend(c, "usr", upd)
               /\ hs' = Respond(h, IF ids = {} THEN 404 ELSE 200)
    /\ UNCHANGED <<inTx, nConns, nextAsg, nextRat, fails, serial, nextReq, clock>>

Profile(h) == StartProfile(h) \/ ProfileUpdate(h)

\* ---------------------------------------------- POST /api/profile/portfolio
PortfolioBodies ==
    [sample_work_image : {"null", "scan1", "scan2"}, description : {"null", "essays"}]

StartPortfolio(h) ==
    /\ hs[h].pc = "idle"
    /\ \E u \in Users, b \in PortfolioBodies :
          Arrive(h, [IdleHandler EXCEPT !.kind = "portfolio", !.pc = "f_upsert",
                        !.caller = u, !.body = b])
    /\ UNCHANGED <<db, pend, inTx, nConns, nextAsg, nextRat, fails, serial,
                   nextReq, clock>>

NoConflict(V, u) == {}

\* ON CONFLICT (writer_id): the rows that the row to insert conflicts with.
Conflict(V, u) == {i \in DOMAIN V.port : V.port[i].writer_id = u}

\* INSERT INTO writer_portfolios (writer_id, sample_work_image, description)
\* VALUES ($1, $2, $3) ON CONFLICT (writer_id) DO UPDATE SET
\* sample_work_image = EXCLUDED.sample_work_image,
\* description = EXCLUDED.description RETURNING *
PortfolioUpsert(h) ==
    /\ Running(h, "f_upsert")
    /\ LET c == hs[h].conn
           V == View(c)
           u == hs[h].caller
           b == hs[h].body
           ids == Conflict(V, u)
           row == [writer_id |-> u, sample_work_image |-> b.sample_work_image,
                   description |-> b.description]
           upd == IF ids = {} THEN NextId(V.port) :> row
                  ELSE [i \in ids |->
                          [V.port[i] EXCEPT
                             !.sample_work_image = b.sample_work_image,
                             !.description = b.description]]
       IN IF ids = {} /\ Duplicate(V, "port", row)
          THEN /\ hs' = Thrown(h)
               /\ UNCHANGED <<db, pend>>
          ELSE /\ Free(c, "port", ids)
               /\ db' = WriteDb(c, "port", upd)
               /\ pend' = WritePend(c, "port", upd)
               /\ hs' = Respond(h, 200)
    /\ UNCHANGED <<inTx, nConns, nextAsg, nextRat, fails, serial, nextReq, clock>>

Portfolio(h) == StartPortfolio(h) \/ PortfolioUpsert(h)

\* ------------------------------------------------------- initial states
User0 ==
    [writer_status |-> "active", rating |-> NoRating, total_ratings |-> 0,
     university_stream |-> "null", whatsapp_number |-> "null",
     email |-> <<"ann", UniversityDomain>>]

\* users.role of the users of a run: a client, a writer, a student, clients.
\* No handler modelled here reads or writes the column.
RoleOf(u) == IF u = 2 THEN "writer" ELSE IF u = 3 THEN "student" ELSE "client"

UserRow(u) == [role |-> RoleOf(u), google_id |-> u] @@ User0

\* Request 1 is open, created by user 1; no other request exists.  Every
\* user has a session, whose id is the user's.
InitDbAccept ==
    [req |-> (1 :> [status |-> "open", client |-> 1]),
     asg |-> << >>,
     rat |-> << >>,
     usr |-> [u \in Users |-> UserRow(u)],
     port |-> << >>,
     ses |-> [u \in Users |-> [user |-> u, live |-> TRUE]]]

InitCommon ==
    /\ pend = [c \in Conns |-> EmptyRows]
    /\ inTx = [c \in Conns |-> FALSE]
    /\ hs = [h \in Handlers |-> IdleHandler]
    /\ fails = 0
    /\ clock = 0

InitAccept ==
    /\ InitCommon
    /\ db = InitDbAccept
    /\ nextAsg = 1
    /\ nextRat = 1
    /\ nextReq = 2
    /\ serial = FALSE
    /\ nConns = 0

\* Request 1 was accepted by user 2 (its Assignment is in progress); the
\* other requests are open.  Nobody has been rated yet.
InitDbRating ==
    [req |-> [r \in ReqIds |->
                [status |-> IF r = 1 THEN "assigned" ELSE "open", client |-> 1]],
     asg |-> (1 :> [request_id |-> 1, writer_id |-> 2, client_id |-> 1,
                    status |-> "in_progress", completed_at |-> FALSE]),
     rat |-> << >>,
     usr |-> [u \in Users |->
                [UserRow(u) EXCEPT
                    !.writer_status = IF u = 2 THEN "busy" ELSE "active"]],
     port |-> << >>,
     ses |-> [u \in Users |-> [user |-> u, live |-> TRUE]]]

InitRating ==
    /\ InitCommon
    /\ db = InitDbRating
    /\ nextAsg = 2
    /\ nextRat = 1
    /\ nextReq = MaxReq + 1
    /\ serial = FALSE
    /\ nConns = 0

InitRatingSeq ==
    /\ InitCommon
    /\ db = InitDbRating
    /\ nextAsg = 2
    /\ nextRat = 1
    /\ nextReq = MaxReq + 1
    /\ serial = TRUE
    /\ nConns = 0

NextRating == \E h \in 1..NRatings : Acquire(h) \/ Reject(h) \/ Rating(h)

\* Rating submissions, overlapping.
SpecRating == InitRating /\ [][NextRating]_vars

\* Rating submissions, each answered before the next arrives.
SpecRatingSeq == InitRatingSeq /\ [][NextRating]_vars

\* Every request is open and was created by user 1 on a day of its own;
\* the odd ones expire within days, the even ones have no expiration.
InitDbList ==
    [InitDbAccept EXCEPT
        !.req = [r \in ReqIds |->
                    [status |-> "open", client |-> 1,
                     created_at |-> r - 1 - MaxReq,
                     expiration_deadline |->
                        IF r % 2 = 1 THEN r ELSE NoDeadline]]]

InitList ==
    /\ InitCommon
    /\ db = InitDbList
    /\ nextAsg = 1
    /\ nextRat = 1
    /\ nextReq = MaxReq + 1
    /\ serial = FALSE
    /\ nConns = 0

\* Listings and accepts, overlapping, while time passes.
NextList ==
    \/ \E h \in 1..NListers : Acquire(h) \/ Reject(h) \/ Accept(h) \/ List(h)
    \/ Tick

SpecList == InitList /\ [][NextList]_vars

\* As before the rating submissions, and one more request, accepted by
\* user 3, that no rating submission of the run names.
InitDbComplete ==
    [InitDbRating EXCEPT
        !.req = @ @@ (MaxReq + 1 :> [status |-> "assigned", client |-> 1]),
        !.asg = @ @@ (2 :> [request_id |-> MaxReq + 1, writer_id |-> 3,
                            client_id |-> 1, status |-> "in_progress",
                            completed_at |-> FALSE])]

InitComplete ==
    /\ InitCommon
    /\ db = InitDbComplete
    /\ nextAsg = 3
    /\ nextRat = 1
    /\ nextReq = MaxReq + 2
    /\ serial = FALSE
    /\ nConns = 0

\* Rating submissions of any value, each answered before the next arrives.
NextRatingRange ==
    \E h \in 1..NRangers :
        \/ Acquire(h) \/ Reject(h) \/ StartRatingAny(h)
        \/ RatingBegin(h) \/ RatingSelect(h) \/ RatingUpdate(h)
        \/ RatingInsert(h) \/ RatingRecompute(h) \/ RatingComplete(h)
        \/ RatingFind(h) \/ RatingCommit(h) \/ RatingRollback(h)

SpecRatingRange == InitRatingSeq /\ [][NextRatingRange]_vars

\* Request 1, of user 1, was accepted by user 2; request 2, of user 3 (a
\* student), is open.  User 1 is a client or has no role.
InitDbMine ==
    {[InitDbRating EXCEPT
        !.req = [r \in ReqIds |->
                   [status |-> IF r = 1 THEN "assigned" ELSE "open",
                    client |-> IF r = 1 THEN 1 ELSE 3]],
        !.usr[1].role = role] : role \in {"client", "null"}}

InitMine ==
    /\ InitCommon
    /\ db \in InitDbMine
    /\ nextAsg = 2
    /\ nextRat = 1
    /\ nextReq = MaxReq + 1
    /\ serial = FALSE
    /\ nConns = 0

\* My-assignments listings and accepts, overlapping.
NextMine ==
    \E h \in 1..NMiners : Acquire(h) \/ Reject(h) \/ Mine(h) \/ Accept(h)

SpecMine == InitMine /\ [][NextMine]_vars

\* The tables after the client of request 1 has rated its writer: the rows
\* that rating submission leaves.
AfterRating(D) ==
    LET D1 == [D EXCEPT !.rat = 1 :> [rater_id |-> 1, rated_id |-> 2,
                                      rating |-> MaxRating, rid |-> 1]]
        D2 == [D1 EXCEPT !.usr[2] = RatingStats(D1, 2)]
    IN [D2 EXCEPT !.asg =
            [a \in DOMAIN D2.asg |->
                IF a \in CompletedRows(D2, 1)
                THEN [D2.asg[a] EXCEPT !.status = "completed",
                                       !.completed_at = TRUE]
                ELSE D2.asg[a]]]

InitFlags ==
    /\ InitCommon
    /\ db \in InitDbMine \cup {AfterRating(D) : D \in InitDbMine}
    /\ nextAsg = 2
    /\ nextRat = NextId(db.rat)
    /\ nextReq = MaxReq + 1
    /\ serial = FALSE
    /\ nConns = 0

\* A rating submission and a my-assignments listing, overlapping.
NextFlags ==
    \/ \E h \in 1..NMiners : Acquire(h) \/ Reject(h)
    \/ Rating(1)
    \/ Mine(2)

SpecFlags == InitFlags /\ [][NextFlags]_vars

\* Logins, requests carrying a session cookie and accepts, overlapping.
NextSession ==
    \E h \in 1..NSessions :
        Acquire(h) \/ Reject(h) \/ Login(h) \/ Probe(h) \/ Accept(h)

SpecSession == InitAccept /\ [][NextSession]_vars

\* An accept, a logout and then a request carrying a session cookie,
\* overlapping.
NextLogout ==
    \/ \E h \in 1..NLogout : Acquire(h) \/ Reject(h)
    \/ Accept(1)
    \/ Logout(2)
    \/ Probe(3)

SpecLogout == InitAccept /\ [][NextLogout]_vars

\* Profile updates, portfolio submissions and accepts, overlapping.
NextProfile ==
    \E h \in 1..NProfilers :
        Acquire(h) \/ Reject(h) \/ Profile(h) \/ Portfolio(h) \/ Accept(h)

SpecProfile == InitAccept /\ [][NextProfile]_vars

\* Completions and rating submissions, overlapping.
NextComplete ==
    \E h \in 1..NCompleters :
        Acquire(h) \/ Reject(h) \/ Complete(h) \/ Rating(h)

SpecComplete == InitComplete /\ [][NextComplete]_vars

\* Accepts, completions and profile updates, and a rating submission that
\* arrives last, overlapping.
NextLife ==
    \/ \E h \in 1..NLife :
          Acquire(h) \/ Reject(h) \/ Accept(h) \/ Complete(h) \/ Profile(h)
    \/ Rating(NLife)

\* As before the completions, after request 1's client has rated its
\* writer, which completed assignment 1: request 2 is open, request 3 is
\* assigned and its Assignment in progress.
InitLife ==
    /\ InitCommon
    /\ db = AfterRating(InitDbComplete)
    /\ nextAsg = 3
    /\ nextRat = NextId(db.rat)
    /\ nextReq = MaxReq + 2
    /\ serial = FALSE
    /\ nConns = 0

SpecLife == InitLife /\ [][NextLife]_vars

\* Sign-outs from the frontend and logouts, overlapping.
NextSignOut ==
    \E h \in 1..NSignOut :
        Acquire(h) \/ Reject(h) \/ SignOut(h) \/ Logout(h)

SpecSignOut == InitAccept /\ [][NextSignOut]_vars

\* One create request, while time passes.
NextCreate == Acquire(1) \/ Reject(1) \/ Create(1) \/ Tick

SpecCreate == InitAccept /\ [][NextCreate]_vars

NextAccept == \E h \in Handlers : Acquire(h) \/ Reject(h) \/ Accept(h)

\* Accepts, overlapping.
SpecAccept == InitAccept /\ [][NextAccept]_vars

\* =================================================================== claims
AsgOf(r) == {a \in DOMAIN db.asg : db.asg[a].request_id = r}

Accepts == {h \in Handlers : hs[h].kind = "accept"}

\* C1: when the accepts of a run come from different callers, all name
\* request 1 (open at the start) and each arrived while the earlier ones were
\* unanswered, all of them have been answered and no pool.query rejected,
\* exactly one of them answered success (200) and every other one answered
\* 404.
C1_ExactlyOneAccepts ==
    (/\ \A h \in Handlers :
          /\ hs[h].kind = "accept" /\ hs[h].rid = 1
          /\ hs[h].pc = "done" /\ ~hs[h].threw
     /\ \A g, h \in Handlers : g # h => hs[g].caller # hs[h].caller
     /\ \A h \in Handlers : hs[h].overlaps)
    => /\ Cardinality({h \in Handlers : hs[h].resp = 200}) = 1
       /\ \A h \in Handlers : hs[h].resp \in {200, 404}

\* C2: in every reachable state no two committed rows of assignments share
\* a request_id.
C2_OneAssignmentPerRequest ==
    \A r \in ReqIds : Cardinality(AsgOf(r)) <= 1

\* C3: an accept that answered 500 after its guarded UPDATE had set the
\* request to 'assigned' leaves the request 'open', without an Assignment
\* row, and the caller's writer_status as it was (no other accept having
\* matched a request in the run).
C3_AcceptAllOrNothing ==
    \A h \in Accepts :
        (/\ hs[h].pc = "done" /\ hs[h].resp = 500 /\ hs[h].found = 1
         /\ \A g \in Accepts : g # h => hs[g].found = 0)
        => /\ db.req[hs[h].rid].status = "open"
           /\ AsgOf(hs[h].rid) = {}
           /\ db.usr[hs[h].caller].writer_status = hs[h].ws0

\* C4: once an accept of request R by caller W has answered success, R is
\* 'assigned', exactly one Assignment row exists for R, in_progress with
\* writer_id = W and client_id = R's client, and W's writer_status is 'busy'.
C4_AcceptEffect ==
    \A h \in Accepts :
        (hs[h].pc = "done" /\ hs[h].resp = 200)
        => /\ db.req[hs[h].rid].status = "assigned"
           /\ \E a \in AsgOf(hs[h].rid) :
                /\ AsgOf(hs[h].rid) = {a}
                /\ db.asg[a].status = "in_progress"
                /\ db.asg[a].writer_id = hs[h].caller
                /\ db.asg[a].client_id = db.req[hs[h].rid].client
           /\ db.usr[hs[h].caller].writer_status = "busy"

\* An accept whose request was missing or not 'open' at its guarded UPDATE,
\* answered and without a rejected pool.query, has answered 404.
C5_Answers404 ==
    \A h \in Accepts :
        (hs[h].nonOpen /\ hs[h].pc = "done" /\ ~hs[h].threw) => hs[h].resp = 404

\* A step of such an accept leaves the committed tables as they are and
\* adds no row to any client's transaction.
C5_WritesNothing ==
    \A h \in Accepts :
        (hs'[h] # hs[h] /\ hs'[h].nonOpen)
        => /\ db' = db
           /\ \A c \in Conns : pend'[c] \in {pend[c], EmptyRows}

\* C5: an accept whose request is missing or not 'open' when its guarded
\* UPDATE runs answers 404 (when none of its pool.query calls rejected) and
\* none of its statements writes a row: the committed tables stay as they
\* are and no client's transaction gains a row.
C5_NotOpenRejected == []C5_Answers404 /\ [][C5_WritesNothing]_vars

\* An accept of an assigned request has answered 404.
C5_Witness ==
    \E h \in Accepts :
        /\ hs[h].nonOpen /\ hs[h].pc = "done" /\ hs[h].resp = 404
        /\ hs[h].rid \in DOMAIN db.req
        /\ db.req[hs[h].rid].status = "assigned"

Ratings == {h \in Handlers : hs[h].kind = "rating"}

MeanOf(u) ==
    RoundAvg(SumRatings(db.rat, RatedRows(db.rat, u)),
             Cardinality(RatedRows(db.rat, u)))

\* C6: in every reachable state every user's rating and total_ratings are
\* the rounded average and the count of the committed Rating rows that name
\* the user as rated_id (no rating and a count of 0 for a user nobody rated).
C6_AggregateMatchesRows ==
    \A u \in Users :
        IF RatedRows(db.rat, u) = {}
        THEN db.usr[u].rating = NoRating /\ db.usr[u].total_ratings = 0
        ELSE /\ db.usr[u].rating = MeanOf(u)
             /\ db.usr[u].total_ratings = Cardinality(RatedRows(db.rat, u))

\* C7: in every reachable state there is at most one committed Rating row
\* per (rater_id, assignment_request_id) pair.
C7_OneRatingPerRaterRequest ==
    \A u \in Users, r \in ReqIds : Cardinality(OwnRows(db.rat, u, r)) <= 1

\* The step that answers a rating submission with 201.
C8_Step ==
    \A h \in Handlers :
        (hs[h].pc = "r_commit" /\ hs'[h].pc = "done" /\ hs'[h].resp = 201
         /\ RatedRows(db'.rat, hs[h].rated) # {})
        => db'.usr[hs[h].rated].rating = MeanOf(hs[h].rated)'

\* C8: in the state in which a rating submission naming rated_id = T is
\* answered with success, T.rating is the mean of the committed Rating rows
\* with rated_id = T, rounded to two decimals.
C8_RatingIsRoundedMean == [][C8_Step]_vars

\* C9: once every rating submission of a run has been answered, every
\* user's total_ratings is the number of distinct (rater_id,
\* assignment_request_id) pairs among the committed Rating rows that name the
\* user.
C9_TotalCountsPairs ==
    (\A h \in Handlers : hs[h].pc \in {"idle", "done"})
    => \A u \in Users :
        db.usr[u].total_ratings =
            Cardinality({<<db.rat[i].rater_id, db.rat[i].rid>> :
                            i \in RatedRows(db.rat, u)})

\* C10: a rating submission (the only one of its rater for its request)
\* that answered 500 after its first write has left no Rating row; one that
\* answered success has left its Rating row, with the submitted value, and
\* every Assignment of the request completed.
C10_RatingAllOrNothing ==
    \A h \in Ratings :
        (/\ hs[h].pc = "done"
         /\ \A g \in Ratings :
              g # h => ~(hs[g].caller = hs[h].caller /\ hs[g].rid = hs[h].rid))
        => /\ (hs[h].resp = 500 /\ hs[h].wrote)
                => OwnRows(db.rat, hs[h].caller, hs[h].rid) = {}
           /\ hs[h].resp = 201
                => /\ \E i \in OwnRows(db.rat, hs[h].caller, hs[h].rid) :
                        db.rat[i].rating = hs[h].rating
                   /\ \A a \in AsgOf(hs[h].rid) : db.asg[a].status = "completed"

\* C19: an accept whose caller's role is not 'writer' never sets a request to
\* 'assigned', and no Assignment row names such a caller as its writer.
C19_OnlyWritersAccept ==
    \A h \in Accepts :
        db.usr[hs[h].caller].role # "writer"
        => /\ hs[h].found = 0
           /\ \A a \in DOMAIN db.asg : db.asg[a].writer_id # hs[h].caller

\* The create requests that were answered 201, and the row each one stored.
Created == {h \in Handlers : hs[h].kind = "create" /\ hs[h].resp = 201}

StoredBy(h) == db.req[hs[h].rows[1]]

Dist(a, b) == IF a < b THEN b - a ELSE a - b

\* C16: the estimated_cost stored by a create is a multiple of 50, no other
\* multiple of 50 is nearer to the submitted value, and the two differ by at
\* most 25.
C16_CostRoundedTo50 ==
    \A h \in Created :
        LET x == hs[h].body.estimated_cost.val
            y == StoredBy(h).estimated_cost
        IN /\ y % CostStep = 0
           /\ 2 * Dist(x, y) <= CostStep
           /\ \A k \in -MaxCost..MaxCost : Dist(x, y) <= Dist(x, k * CostStep)

\* A submitted 25 was stored as 50, a submitted -25 as 0 or a submitted 74
\* as 50.
C16_Witness ==
    \E h \in Created :
        LET x == hs[h].body.estimated_cost.val
        IN /\ x % CostStep # 0
           /\ StoredBy(h).estimated_cost # x

\* C17: every request stored by a create has status 'open', client_id equal
\* to the caller, and expiration_deadline equal to its created_at plus
\* exactly 7 days.
C17_ExpiresSevenDaysAfterCreation ==
    \A h \in Created :
        /\ StoredBy(h).status = "open"
        /\ StoredBy(h).client = hs[h].caller
        /\ StoredBy(h).expiration_deadline
             = StoredBy(h).created_at + ExpirationDays

C20_WritersCreateNothing ==
    \A h \in Handlers :
        (hs[h].kind = "create" /\ db.usr[hs[h].caller].role = "writer")
        => /\ hs[h].resp # 201
           /\ \A r \in DOMAIN db.req : r # 1 => db.req[r].client # hs[h].caller

Range(s) == {s[i] : i \in DOMAIN s}

Lists == {h \in Handlers : hs[h].kind = "list" /\ hs[h].resp = 200}

\* Once every request of a run is answered, a request that is still 'open'
\* and had not expired when a listing read the table is in that listing.
C15_ListsEveryOpen ==
    (\A g \in Handlers : ~Active(g))
    => \A h \in Lists : \A r \in DOMAIN db.req :
          (db.req[r].status = "open" /\ NotExpired(db.req[r], hs[h].t0))
          => r \in Range(hs[h].rows)

\* A listing returns only requests that are 'open' and not expired when it
\* reads the table, each once, the later created first.
C15_ListsOnlyOpen ==
    \A h \in Handlers :
        (hs[h].pc = "l_select" /\ hs'[h].pc = "done" /\ hs'[h].resp = 200)
        => LET s == hs'[h].rows
           IN /\ \A r \in Range(s) :
                    /\ db.req[r].status = "open"
                    /\ NotExpired(db.req[r], clock)
              /\ \A i, j \in DOMAIN s : i < j =>
                    /\ s[i] # s[j]
                    /\ db.req[s[i]].created_at >= db.req[s[j]].created_at

\* C15: the listing returns exactly the requests that are 'open' and whose
\* expiration_deadline is null or in the future, newest first, and never an
\* assigned or an expired request.
C15_ListsExactlyOpenUnexpired == []C15_ListsEveryOpen /\ [][C15_ListsOnlyOpen]_vars

Quiet == \A g \in Handlers : ~Active(g)

Completes == {h \in Handlers : hs[h].kind = "complete"}

\* A step that turns an Assignment 'completed' is a step of a request whose
\* caller is that Assignment's writer.
C11_Step ==
    \A a \in DOMAIN db.asg :
        (db.asg[a].status # "completed" /\ db'.asg[a].status = "completed")
        => \E h \in Handlers :
              hs'[h] # hs[h] /\ hs[h].caller = db.asg[a].writer_id

\* C11: an Assignment becomes 'completed' only as the effect of a request
\* whose authenticated caller is its writer_id, through PUT
\* /api/assignments/:id/complete as well as through POST /api/ratings.
C11_OnlyWriterCompletes == [][C11_Step]_vars

\* A complete by a caller who is not the writer of assignment :id writes
\* nothing and, unless its pool.query rejects, is answered 403.
C12_Forbidden ==
    \A h \in Completes :
        (hs'[h] # hs[h] /\ ~IsWriterOf(db, hs[h].aid, hs[h].caller))
        => /\ db' = db /\ pend' = pend
           /\ (hs'[h].pc = "done" /\ ~hs'[h].threw) => hs'[h].resp = 403

\* Once every request is answered, a complete by the writer of assignment
\* :id was answered 200, unless its pool.query rejected, and a complete that
\* was answered 200 has left the assignment 'completed', completed_at set.
C12_Completed ==
    Quiet =>
        \A h \in Completes :
            /\ (IsWriterOf(db, hs[h].aid, hs[h].caller) /\ ~hs[h].threw)
                  => hs[h].resp = 200
            /\ hs[h].resp = 200
                  => /\ db.asg[hs[h].aid].status = "completed"
                     /\ db.asg[hs[h].aid].completed_at

\* C12: PUT /api/assignments/:id/complete by a caller who is not the writer
\* of assignment :id is answered 403 and leaves the Assignment as it is; by
\* the writer it sets status = 'completed' and completed_at.
C12_CompleteByWriterOnly == []C12_Completed /\ [][C12_Forbidden]_vars

\* Once every request is answered, the Assignments of the request of a
\* rating submission that was answered 201 are 'completed', completed_at set.
C13_Completed ==
    Quiet =>
        \A h \in Ratings :
            hs[h].resp = 201
            => \A a \in AsgOf(hs[h].rid) :
                  db.asg[a].status = "completed" /\ db.asg[a].completed_at

\* An Assignment that was in progress at the start is 'completed' only if a
\* rating submission named its request or a complete named it.
C13_Frame ==
    \A a \in DOMAIN db.asg :
        db.asg[a].status = "completed"
        => \/ \E h \in Ratings : hs[h].rid = db.asg[a].request_id
           \/ \E h \in Completes : hs[h].aid = a

\* C13: after a successful rating submission for request R an Assignment
\* of R is 'completed' with completed_at set, and the Assignments of other
\* requests are unchanged.
C13_RatingCompletesAssignment == C13_Completed /\ C13_Frame

\* C14: a rating submission (the only one of its rater for its request)
\* for a request without Assignment row, none of whose pool.query calls
\* rejected, is answered 201, its Rating row is committed with the submitted
\* value, and no Assignment row exists for the request.
C14_RatingWithoutAssignment ==
    Quiet =>
        \A h \in Ratings :
            (/\ hs[h].pc = "done" /\ hs[h].rid # 0 /\ ~hs[h].threw
             /\ AsgOf(hs[h].rid) = {}
             /\ \A g \in Ratings :
                  g # h => ~(hs[g].caller = hs[h].caller /\ hs[g].rid = hs[h].rid))
            => /\ hs[h].resp = 201
               /\ \E i \in OwnRows(db.rat, hs[h].caller, hs[h].rid) :
                    db.rat[i].rating = hs[h].rating

\* The stored status of every request is 'open' or 'assigned'.
C22_Stored ==
    \A r \in DOMAIN db.req : db.req[r].status \in {"open", "assigned"}

\* The request of an accept that answered success is not 'open'.
C22_Answered ==
    \A h \in Accepts :
        (hs[h].pc = "done" /\ hs[h].resp = 200)
        => db.req[hs[h].rid].status # "open"

\* A request that is 'assigned' stays 'assigned', so that it changes from
\* 'open' to 'assigned' at most once.
C22_Step ==
    \A r \in DOMAIN db.req :
        db.req[r].status = "assigned"
        => r \in DOMAIN db'.req /\ db'.req[r].status = "assigned"

\* C22: along every execution the stored status of a request changes from
\* 'open' to 'assigned' at most once; once a successful accept has been
\* answered the request is not 'open' again; the stored status is always
\* 'open' or 'assigned' ('expired' is never stored).
C22_AssignedOnce == [](C22_Stored /\ C22_Answered) /\ [][C22_Step]_vars

\* Handler h has written a row: the guarded UPDATE of an accept matched, or
\* the INSERT or UPDATE of a rating submission ran.
HasWritten(h) ==
    IF hs[h].kind = "accept" THEN hs[h].found = 1 ELSE hs[h].wrote

\* The ROLLBACK of a request that has written nothing discards no write.
C29_Step ==
    \A h \in Handlers :
        (/\ hs[h].pc \in {"a_rollback404", "a_rollback500", "r_rollback"}
         /\ hs'[h].pc = "done"
         /\ ~HasWritten(h))
        => pend' = pend

\* C29: requests are handled independently: the ROLLBACK that an accept or
\* a rating submission issues through the shared pool never undoes the
\* writes of another request handled concurrently.
C29_RequestsIndependent == [][C29_Step]_vars

\* C27: every stored Rating row has a rating from 1 to 5: a rating
\* submission whose rating is outside 1..5 stores or updates no Rating row.
C27_RatingInRange ==
    \A i \in DOMAIN db.rat : db.rat[i].rating \in 1..5

\* Every user's writer_status is null, 'active', 'busy' or 'inactive'.
C30_Stored ==
    \A u \in DOMAIN db.usr :
        db.usr[u].writer_status \in {"null", "active", "busy", "inactive"}

\* A profile update whose writer_status is none of these is answered 400.
C30_Rejected ==
    \A h \in Handlers :
        (/\ hs[h].kind = "profile" /\ hs[h].pc = "done"
         /\ hs[h].body.writer_status \notin {"null", "active", "busy", "inactive"})
        => hs[h].resp = 400

\* C30: in every reachable state each user's writer_status is null or one
\* of 'active', 'busy', 'inactive': a profile update with a writer_status
\* outside that set is answered 400 and leaves the user row as it is.
C30_WriterStatusValid == C30_Stored /\ C30_Rejected

Portfolios(rows, u) == {i \in DOMAIN rows : rows[i].writer_id = u}

\* No two rows of writer_portfolios name the same writer.
C28_OnePerWriter ==
    \A u \in Users : Cardinality(Portfolios(db.port, u)) <= 1

\* The step of a portfolio submission that runs its statement, as the
\* statement's client sees the table before (V) and after (W): the caller
\* has one row, with the submitted image and description; it is a new row
\* when the caller had none and the caller's old row otherwise; the rows of
\* the other writers are as before; nothing changes when the caller's row
\* already had the submitted image and description.
C28_Step ==
    \A h \in Handlers :
        (hs[h].pc = "f_upsert" /\ hs'[h].pc = "done" /\ hs'[h].resp = 200)
        => LET c == hs[h].conn
               u == hs[h].caller
               b == hs[h].body
               V == pend[c].port @@ db.port
               W == pend'[c].port @@ db'.port
               same(i) == /\ V[i].sample_work_image = b.sample_work_image
                          /\ V[i].description = b.description
           IN /\ \E i \in DOMAIN W :
                    /\ Portfolios(W, u) = {i}
                    /\ W[i].sample_work_image = b.sample_work_image
                    /\ W[i].description = b.description
                    /\ IF Portfolios(V, u) = {}
                       THEN DOMAIN W = DOMAIN V \cup {i} /\ i \notin DOMAIN V
                       ELSE DOMAIN W = DOMAIN V /\ Portfolios(V, u) = {i}
              /\ \A j \in DOMAIN V : V[j].writer_id # u => W[j] = V[j]
              /\ (\E i \in Portfolios(V, u) : same(i)) => W = V

\* While no statement has failed, every answered portfolio submission was
\* answered 200: its statement never violates the UNIQUE constraint.
C28_Answered ==
    \A h \in Handlers :
        (hs[h].kind = "portfolio" /\ hs[h].pc = "done" /\ fails = 0)
        => hs[h].resp = 200

Mines == {h \in Handlers : hs[h].kind = "mine"}

\* An answered my-assignments listing, no pool.query of which rejected, by
\* a client or a student was answered 200 with role 'client', by a writer
\* 200 with role 'writer', by a caller of any other role 403.
C25_Dispatch ==
    \A h \in Mines :
        (hs[h].pc = "done" /\ ~hs[h].threw)
        => LET role == db.usr[hs[h].caller].role
           IN IF role \in {"client", "student"}
              THEN hs[h].resp = 200 /\ hs[h].ws0 = "client"
              ELSE IF role = "writer"
              THEN hs[h].resp = 200 /\ hs[h].ws0 = "writer"
              ELSE hs[h].resp = 403

\* Once every request is answered: a listing answered to a client or a
\* student holds the requests with client_id = caller and no other; every
\* item of a listing answered to a writer is an Assignment with writer_id =
\* caller.
C25_Content ==
    Quiet =>
        \A h \in Mines :
            hs[h].resp = 200
            => IF hs[h].ws0 = "client"
               THEN {hs[h].rows[i].request_id : i \in DOMAIN hs[h].rows}
                      = {r \in DOMAIN db.req : db.req[r].client = hs[h].caller}
               ELSE \A i \in DOMAIN hs[h].rows :
                       /\ hs[h].rows[i].asg \in DOMAIN db.asg
                       /\ db.asg[hs[h].rows[i].asg].writer_id = hs[h].caller

\* The SELECT of a writer's listing returns every committed Assignment with
\* writer_id = caller.
C25_Step ==
    \A h \in Handlers :
        (hs[h].pc = "m_writer" /\ hs'[h].pc = "m_ratings")
        => \A a \in DOMAIN db.asg :
              db.asg[a].writer_id = hs[h].caller
              => \E i \in DOMAIN hs'[h].rows : hs'[h].rows[i].asg = a

\* C25: GET /api/my-assignments treats a caller whose role is 'student' as
\* one whose role is 'client': it returns role 'client' and the requests
\* with client_id = caller; a writer gets the assignments with writer_id =
\* caller; a caller with any other role gets 403.
C25_RoleDispatch == [](C25_Dispatch /\ C25_Content) /\ [][C25_Step]_vars

\* The caller of listing h has a committed Rating row for request r that
\* names user t as rated_id.
HasRated(h, r, t) ==
    \E i \in DOMAIN db.rat :
        /\ db.rat[i].rater_id = hs[h].caller
        /\ db.rat[i].rid = r
        /\ db.rat[i].rated_id = t

\* Once every request is answered: no item has both flags; in a listing
\* answered to a client has_rated_client is false and has_rated_writer is
\* true only if the caller has a Rating row for the request naming the
\* assignment's writer; in one answered to a writer has_rated_writer is
\* false and has_rated_client is true only if the caller has a Rating row
\* for the request naming the request's client.
C26_Flags ==
    Quiet =>
        \A h \in Mines :
            hs[h].resp = 200
            => \A i \in DOMAIN hs[h].rows :
                  LET a == hs[h].rows[i]
                  IN /\ ~(a.has_rated_writer /\ a.has_rated_client)
                     /\ IF hs[h].ws0 = "client"
                        THEN /\ ~a.has_rated_client
                             /\ a.has_rated_writer
                                  => HasRated(h, a.request_id, a.writer_id)
                        ELSE /\ ~a.has_rated_writer
                             /\ a.has_rated_client
                                  => HasRated(h, a.request_id, a.client_id)

\* The flag is true whenever the Rating row is committed when the listing
\* reads the ratings.
C26_Step ==
    \A h \in Handlers :
        (hs[h].pc = "m_ratings" /\ hs'[h].pc = "done" /\ hs'[h].resp = 200)
        => \A i \in DOMAIN hs'[h].rows :
              LET a == hs'[h].rows[i]
              IN IF hs[h].ws0 = "client"
                 THEN (a.writer_id # 0 /\ HasRated(h, a.request_id, a.writer_id))
                         => a.has_rated_writer
                 ELSE HasRated(h, a.request_id, a.client_id)
                         => a.has_rated_client

\* C26: in every item returned by GET /api/my-assignments has_rated_writer
\* and has_rated_client are never both true: for a client (or student)
\* has_rated_client is false and has_rated_writer is true exactly when the
\* caller has a Rating row for that request whose rated_id is the
\* assignment's writer; for a writer has_rated_writer is false and
\* has_rated_client is true exactly when the caller has a Rating row for that
\* request whose rated_id is the request's client.
C26_RatedFlags == []C26_Flags /\ [][C26_Step]_vars


\* ---------------------------------------------------------------- C21
Probes == {h \in Handlers : hs[h].kind = "probe"}

\* A request that reached a session-protected route with no user in its
\* session (no cookie, no such session, or a session nobody is logged in to)
\* and whose statements did not fail is answered 401.
C21_Answer ==
    \A h \in Probes :
        (hs[h].pc = "done" /\ ~hs[h].threw /\ hs[h].cli = 0
            /\ hs[h].ws0 \in ProtectedRoutes) => hs[h].resp = 401

\* Only a request with a user in its session comes to read table users.
C21_NoRead ==
    \A h \in Probes : hs[h].cli = 0 => hs[h].pc \in {"s_load", "done"}

\* A step of a request with no user in its session leaves every table as it
\* is, the committed rows and the pending ones.
C21_Step ==
    \A h \in Handlers :
        (hs'[h] # hs[h] /\ hs'[h].kind = "probe" /\ hs'[h].cli = 0)
            => (db' = db /\ pend' = pend)

\* C21: every session-protected endpoint answers a request that has no
\* authenticated session with 401 and neither reads nor writes users,
\* assignment_requests, assignments, ratings or writer_portfolios for it.
C21_Unauthenticated401 == [](C21_Answer /\ C21_NoRead) /\ [][C21_Step]_vars

\* A request to a protected route with the cookie of no session was
\* answered 401, and so was one with no cookie at all.
C21_Witness ==
    /\ \E h \in Probes :
          /\ hs[h].pc = "done" /\ hs[h].rid # 0 /\ hs[h].cli = 0
          /\ hs[h].ws0 = "my-ratings" /\ hs[h].resp = 401
    /\ \E h \in Probes :
          /\ hs[h].pc = "done" /\ hs[h].rid = 0
          /\ hs[h].ws0 = "accept" /\ hs[h].resp = 401

\* ---------------------------------------------------------------- C24
Logins == {h \in Handlers : hs[h].kind = "login"}

\* The last part of the address is the university's domain.
UniversityEmail(email) ==
    Len(email) > 0 /\ email[Len(email)] = UniversityDomain

\* Every row of users, committed or pending, has a university address.
C24_Rows ==
    /\ \A u \in DOMAIN db.usr : UniversityEmail(db.usr[u].email)
    /\ \A c \in Conns : \A u \in DOMAIN pend[c].usr :
          UniversityEmail(pend[c].usr[u].email)

\* A login with another address is answered by the redirect with
\* error=unauthorized, issues no statement and has no session.
C24_Refused ==
    \A h \in Logins :
        ~UniversityEmail(hs[h].body)
            => /\ hs[h].pc = "done"
               /\ hs[h].resp = 302 /\ hs[h].ws0 = "unauthorized"
               /\ FreshSid(h) \notin DOMAIN db.ses
               /\ \A c \in Conns : FreshSid(h) \notin DOMAIN pend[c].ses
               /\ \A u \in DOMAIN db.usr : db.usr[u].email # hs[h].body

\* C24: an OAuth login whose e-mail does not end with '@student.iul.ac.in'
\* creates no users row and no session and is redirected with
\* error=unauthorized; every users row has an e-mail ending with that domain.
C24_UniversityOnly == C24_Rows /\ C24_Refused

\* A login with a foreign address that holds the domain inside was refused
\* while another login has created the row of a new user.
C24_Witness ==
    /\ \E h \in Logins :
          /\ hs[h].body = <<"ann", UniversityDomain, ".example.com">>
          /\ hs[h].ws0 = "unauthorized"
    /\ \E h \in Logins : hs[h].ws0 = "dashboard" /\ hs[h].caller = NUsers + 1
    /\ NUsers + 1 \in DOMAIN db.usr

\* ---------------------------------------------------------------- C23
\* The logouts answered, with the redirect, before request h arrived and
\* that carried the cookie h carries.
LoggedOutBefore(h) ==
    {g \in hs[h].after :
        hs[g].kind = "logout" /\ hs[g].resp = 302 /\ hs[g].rid = hs[h].rid}

\* A request that arrives after the logout of its session was answered, and
\* whose statements did not fail, finds no user: /api/auth/status answers
\* isAuthenticated false and a protected route 401.
C23_Later ==
    \A h \in Probes :
        (hs[h].pc = "done" /\ ~hs[h].threw /\ LoggedOutBefore(h) # {})
            => /\ hs[h].found = 0
               /\ hs[h].ws0 = "auth/status" => hs[h].resp = 200
               /\ hs[h].ws0 \in ProtectedRoutes => hs[h].resp = 401

\* C23: after GET /auth/logout has been handled the session is destroyed:
\* later requests carrying that session's cookie get isAuthenticated=false
\* from /api/auth/status and 401 from protected endpoints, until a new
\* login occurs (a new login starts a session of its own).
C23_LoggedOut == C23_Later

\* ---------------------------------------------------------------- C31
\* C31: in every reachable state a committed Assignment row exists for a
\* request if and only if the request's stored status is 'assigned', after
\* any sequence of accepts, the failed ones included.
C31_AssignmentIffAssigned ==
    \A r \in DOMAIN db.req :
        AsgOf(r) # {} <=> db.req[r].status = "assigned"

\* ---------------------------------------------------------------- C32
\* A committed Assignment that is 'completed' is 'completed' after the step.
C32_Step ==
    \A a \in DOMAIN db.asg :
        db.asg[a].status = "completed"
            => a \in DOMAIN db'.asg /\ db'.asg[a].status = "completed"

\* C32: Assignment status is monotonic: once an Assignment is 'completed' no
\* complete, rating submission, accept or profile update turns it back to
\* 'in_progress', and a repeated completion (by PUT complete or by another
\* rating submission) keeps it 'completed'.
C32_CompletedStays == [][C32_Step]_vars

\* Assignment 1, completed at the start, was completed again by its writer
\* and by a rating submission for its request, and is 'completed'.
C32_Witness ==
    /\ db.asg[1].status = "completed"
    /\ \E h \in Completes :
          hs[h].aid = 1 /\ hs[h].pc = "done" /\ hs[h].resp = 200
    /\ \E h \in Ratings :
          hs[h].rid = 1 /\ hs[h].pc = "done" /\ hs[h].resp = 201

\* ---------------------------------------------------------------- C33
\* C33: in every reachable state the completed_at of an Assignment, committed
\* or pending, is set if and only if its status is 'completed': accept
\* creates it 'in_progress' without completed_at, and both statements that
\* set 'completed' set completed_at with it.
C33_CompletedAtIffCompleted ==
    /\ \A a \in DOMAIN db.asg :
          db.asg[a].completed_at <=> db.asg[a].status = "completed"
    /\ \A c \in Conns : \A a \in DOMAIN pend[c].asg :
          pend[c].asg[a].completed_at <=> pend[c].asg[a].status = "completed"

\* An accept has created an Assignment, still in progress, after a complete
\* has completed assignment 2.
C33_Witness ==
    /\ \E a \in DOMAIN db.asg :
          /\ a >= 3
          /\ db.asg[a].status = "in_progress" /\ ~db.asg[a].completed_at
    /\ db.asg[2].status = "completed" /\ db.asg[2].completed_at
    /\ \E h \in Completes : hs[h].aid = 2 /\ hs[h].resp = 200

\* ---------------------------------------------------------------- C36
\* A step of a complete, and the completing statement of a rating
\* submission, leave the writer_status of every user as it is, committed
\* and pending.
C36_Step ==
    \A h \in Handlers :
        (hs'[h] # hs[h] /\ (hs[h].kind = "complete" \/ hs[h].pc = "r_complete"))
            => /\ \A u \in DOMAIN db.usr :
                    /\ u \in DOMAIN db'.usr
                    /\ db'.usr[u].writer_status = db.usr[u].writer_status
               /\ \A c \in Conns : pend'[c].usr = pend[c].usr

\* The stored writer_status of a user differs from the one at the start only
\* in a run with an accept or a profile update of that user.
C36_Frame ==
    \A u \in Users :
        db.usr[u].writer_status # InitDbComplete.usr[u].writer_status
            => \E h \in Handlers :
                  hs[h].caller = u /\ hs[h].kind \in {"accept", "profile"}

\* C36: completing an assignment, by PUT complete or as the side effect of a
\* rating submission, leaves every user's writer_status unchanged: a writer
\* set to 'busy' by accept stays 'busy' after their assignments are
\* completed, until PUT /api/profile/writer changes it.
C36_CompletionKeepsWriterStatus == []C36_Frame /\ [][C36_Step]_vars

\* A writer whose accept was answered 200 has completed the Assignment it
\* created and is still 'busy'; user 2, whose only Assignment is completed,
\* is 'busy' too.
C36_Witness ==
    /\ \E h \in Accepts, g \in Completes :
          /\ hs[h].resp = 200 /\ hs[g].resp = 200
          /\ hs[g].caller = hs[h].caller
          /\ hs[g].aid \in DOMAIN db.asg
          /\ db.asg[hs[g].aid].request_id = hs[h].rid
          /\ db.asg[hs[g].aid].status = "completed"
          /\ db.usr[hs[h].caller].writer_status = "busy"
    /\ db.usr[2].writer_status = "busy"
    /\ \A a \in DOMAIN db.asg :
          db.asg[a].writer_id = 2 => db.asg[a].status = "completed"

\* ---------------------------------------------------------------- C34
\* The accepts of a request that had expired when they arrived: a listing
\* at that time or later does not return the request.
LateAccepts ==
    {h \in Accepts :
        /\ hs[h].rid \in DOMAIN db.req
        /\ ~NotExpired(db.req[hs[h].rid], hs[h].t0)}

\* The guarded UPDATE of an accept matches a request that is 'open' as the
\* statement sees it, expired or not, and no other.
C34_Step ==
    \A h \in Accepts :
        (hs[h].pc = "a_update" /\ hs[h].conn # 0 /\ hs'[h].pc # "a_update"
            /\ ~hs'[h].threw)
        => LET V == View(hs[h].conn)
               r == hs[h].rid
           IN hs'[h].pc = IF r \in DOMAIN V.req /\ V.req[r].status = "open"
                          THEN "a_insert" ELSE "a_rollback404"

\* Once every request is answered and no statement has failed, an accept
\* of an expired request whose guarded UPDATE found it 'open' was answered
\* 200 and the request is 'assigned', with an Assignment.
C34_Accepted ==
    (Quiet /\ fails = 0) =>
        \A h \in LateAccepts :
            hs[h].found = 1
            => /\ hs[h].resp = 200
               /\ db.req[hs[h].rid].status = "assigned"
               /\ AsgOf(hs[h].rid) # {}

\* C34: whether an accept succeeds depends on the request's stored status
\* only, not on its expiration_deadline: an 'open' request whose
\* expiration_deadline has passed, which GET /api/assignment-requests no
\* longer lists, is still accepted successfully and gets an Assignment.
C34_ExpiredStillAccepted == []C34_Accepted /\ [][C34_Step]_vars

\* ---------------------------------------------------------------- C37
\* C37: in every reachable state no committed Assignment has writer_id equal
\* to client_id: the user who created a request cannot accept it.
C37_NoSelfAssignment ==
    \A a \in DOMAIN db.asg : db.asg[a].writer_id # db.asg[a].client_id

\* ---------------------------------------------------------------- C35
SignOuts == {h \in Handlers : hs[h].kind = "signout"}

\* C35: pressing Sign Out in the Header ends the user's session: once the
\* request that handleLogout sends has been answered, no statement having
\* failed, it has reached a logout route of the server, the session of its
\* cookie holds no user any more, and the frontend is at /login.
C35_SignOutEndsSession ==
    \A h \in SignOuts :
        (hs[h].pc = "done" /\ ~hs[h].threw)
            => /\ hs[h].found = 1
               /\ SessionUser(db, hs[h].rid) = 0
               /\ hs[h].ws0 = "login"
====
